---- MODULE Spec2Model ----
(***************************************************************************)
(* Recurring Note Upsert Engine of gen-intelligence: the writers that      *)
(* mirror Linear, Todoist, Manus and GitHub events into the Daily Action   *)
(* note and into the weekday subsection of the Weekly Cycle note.          *)
(*                                                                         *)
(* A document is the sequence of its lines (text.split('\n')); the         *)
(* writers' index arithmetic is kept 0-based as in the Python source.      *)
(* A line is a record [k, a, b, c]: k is the kind of line, a/b/c carry     *)
(* what the writers' tests (strip, startswith, regex match, substring)     *)
(* look at.                                                                *)
(***************************************************************************)
EXTENDS Integers, Sequences, FiniteSets, TLC

VARIABLES
    da,         \* lines of the Daily Action file of the effective day
    daPresent,  \* the Daily Action file exists in the store
    wc,         \* lines of the Weekly Cycle file of the current cycle
    wcPresent,  \* the Weekly Cycle file exists in the store
    now,        \* index into Instants of the current instant
    ops,        \* number of writer invocations so far
    last,       \* the most recent invocation: its arguments (key; flag:
                \* status_changed; body: update body or issue status) and outcome
    pending,    \* arguments of a two-note invocation between its two writes
    clock,      \* a datetime [ord, hour]: day number (day 0 a Monday) and hour
    calc,       \* the most recent result of the date functions on clock
    line,       \* a line of text, as the sequence of its characters
    seen,       \* the most recent verdict of a log-entry recogniser on line
    inv,        \* overlapping invocations: position, arguments, text read
    writeLog,   \* the invocations that uploaded, in the order of their uploads
    mainLines,  \* lines handed to _find_issues_touched_insert_position
    insertPos   \* the most recent result of that function on mainLines

vars == <<da, daPresent, wc, wcPresent, now, ops, last, pending, clock, calc, line, seen,
          inv, writeLog, mainLines, insertPos>>
noteVars == <<da, daPresent, wc, wcPresent, now, ops, last, pending>>
dateVars == <<clock, calc>>
logVars == <<line, seen>>
raceVars == <<inv, writeLog>>
posVars == <<mainLines, insertPos>>

-----------------------------------------------------------------------------
(* Bounds *)

MaxOps == 2
MaxDays == 8
MaxInvocations == 2
MaxRangeLines == 3

-----------------------------------------------------------------------------
(* Line alphabet *)

L(k, a, b, c) == [k |-> k, a |-> a, b |-> b, c |-> c]

Blank == L("blank", "", "", "")               \* ''
Sep == L("sep", "", "", "")                   \* '---'
TEMPLATE_BOUNDARY == L("tb", "", "", "")      \* 'Vision Objective 1:'
DailyReviewLine == L("dr", "", "", "")        \* 'Daily Review:'
Text(n) == L("text", n, "", "")               \* human prose
HashText(n) == L("text", n, "", "hash")       \* human markdown heading
Hdr(lvl, h) == L("hdr", h, lvl, "")           \* tracked section header
DayHdr(d) == L("day", d, "", "")              \* '### <Weekday> -'

\* Daily Action headers (heading level 3)
INITIATIVE_UPDATES_HEADER == Hdr("3", "Initiative Updates:")
PROJECT_UPDATES_HEADER == Hdr("3", "Project Updates:")
TODOIST_COMPLETED_HEADER == Hdr("3", "Completed Tasks on Todoist:")
ISSUES_TOUCHED_HEADER == Hdr("3", "Linear Issues Touched:")
DAILY_ACTION_HEADER == Hdr("3", "Manus Tasks:")
GITHUB_ACTIVITY_HEADER == Hdr("3", "GitHub Activity:")

\* Weekly Cycle headers (heading level 5)
WC_INITIATIVE_UPDATES_HEADER == Hdr("5", "Initiative Updates:")
WC_PROJECT_UPDATES_HEADER == Hdr("5", "Project Updates:")
WC_COMPLETED_TASKS_HEADER == Hdr("5", "Completed Tasks:")
WC_ISSUES_TOUCHED_HEADER == Hdr("5", "Linear Issues Touched:")
WEEKLY_CYCLE_HEADER == Hdr("5", "Manus Tasks:")

\* line.strip() == ''
IsBlank(l) == l.k = "blank"
\* line.strip() == '---'
IsSep(l) == l.k = "sep"
\* line.strip().startswith('#')
StartsHash(l) == l.k \in {"hdr", "day"} \/ l.c = "hash"
\* line.startswith('###') (no strip)
StartsTripleHash(l) == l.k \in {"hdr", "day"}
\* header in line: a level-5 header text contains the level-3 header text
ContainsHeader(l, h) ==
    l.k = "hdr" /\ l.a = h.a /\ (l.b = h.b \/ (h.b = "3" /\ l.b = "5"))
\* 'Daily Review:' in line
ContainsDailyReview(l) == l.k = "dr"

-----------------------------------------------------------------------------
(* Python list helpers, 0-based *)

At(s, i) == s[i + 1]
Idx(s) == 0 .. (Len(s) - 1)
Slice(s, a, b) == SubSeq(s, a + 1, b)         \* s[a:b]
InsertAt(s, i, xs) == Slice(s, 0, i) \o xs \o Slice(s, i, Len(s))
SetMin(S) == CHOOSE x \in S : \A y \in S : x <= y
SetMax(S) == CHOOSE x \in S : \A y \in S : x >= y
None == -1
\* first index in S, or None
First(S) == IF S = {} THEN None ELSE SetMin(S)

-----------------------------------------------------------------------------
(* Front matter and Daily Review landmarks *)

RECURSIVE LStripBlank(_)
LStripBlank(s) ==
    IF s = <<>> THEN <<>>
    ELSE IF IsBlank(Head(s)) /\ Head(s) = Blank THEN LStripBlank(Tail(s))
    ELSE s

\* _parse_yaml_frontmatter: yaml are the lines of yaml_section (its text ends
\* with a blank line), main the lines of main_content.
ParseYamlFrontmatter(F) ==
    LET ends == {i \in 1 .. (Len(F) - 1) : IsSep(At(F, i))}
    IN  IF ~(Len(F) >= 2 /\ F[1] = Sep) \/ ends = {}
        THEN [yaml |-> <<>>, main |-> F]
        ELSE LET ye == SetMin(ends)
                 rest == LStripBlank(Slice(F, ye + 1, Len(F)))
             IN  [yaml |-> Slice(F, 0, ye + 1) \o <<Blank>>,
                  main |-> IF rest = <<>> THEN <<Blank>> ELSE rest]

\* _find_daily_review_end: index after the first '---' at or after the first
\* line containing 'Daily Review:', or None.
FindDailyReviewEnd(lines) ==
    LET drs == {i \in Idx(lines) : ContainsDailyReview(At(lines, i))}
    IN  IF drs = {} THEN None
        ELSE LET seps == {i \in Idx(lines) : i >= SetMin(drs) /\ IsSep(At(lines, i))}
             IN  IF seps = {} THEN None ELSE SetMin(seps) + 1

DailyReviewEndOrZero(lines) ==
    IF FindDailyReviewEnd(lines) = None THEN 0 ELSE FindDailyReviewEnd(lines)

-----------------------------------------------------------------------------
(* Linear Issues Touched: Daily Action *)

\* _format_issue_entry: "<id> [<project> - ]<title> (<status>) ([link](<url>))"
FormatIssueEntry(id, st) == L("issue", id, st, "")

\* identifier_pattern.match(line): the line starts with the identifier and a space
MatchesIdentifier(l, id) == l.k = "issue" /\ l.a = id

\* One iteration of the scan of _find_issues_touched_insert_position;
\* s holds the loop's locals, s.stop is the break.
IssuesPosStep(lines, dre, i, s) ==
    LET l == At(lines, i) IN
    IF i < dre THEN s
    ELSE IF l = TODOIST_COMPLETED_HEADER
    THEN [s EXCEPT !.inT = TRUE, !.inP = FALSE, !.inI = FALSE]
    ELSE IF l = PROJECT_UPDATES_HEADER
    THEN [s EXCEPT !.inP = TRUE, !.inT = FALSE, !.inI = FALSE,
                   !.ie = IF s.ie = None
                             /\ \E j \in dre .. (i - 1) :
                                   ContainsHeader(At(lines, j), INITIATIVE_UPDATES_HEADER)
                          THEN i ELSE s.ie]
    ELSE IF l = INITIATIVE_UPDATES_HEADER
    THEN [s EXCEPT !.inI = TRUE, !.inT = FALSE, !.inP = FALSE]
    ELSE IF StartsHash(l) \/ IsSep(l)
    THEN [s EXCEPT !.te = IF s.inT THEN i ELSE s.te, !.inT = FALSE,
                   !.pe = IF s.inP THEN i ELSE s.pe, !.inP = FALSE,
                   !.ie = IF s.inI THEN i ELSE s.ie, !.inI = FALSE]
    ELSE IF l = TEMPLATE_BOUNDARY
    THEN [s EXCEPT !.tb = i, !.stop = TRUE,
                   !.te = IF s.inT THEN i ELSE s.te,
                   !.pe = IF s.inP THEN i ELSE s.pe,
                   !.ie = IF s.inI THEN i ELSE s.ie]
    ELSE s

RECURSIVE IssuesPosScan(_, _, _, _)
IssuesPosScan(lines, dre, i, s) ==
    IF i >= Len(lines) \/ s.stop THEN s
    ELSE IssuesPosScan(lines, dre, i + 1, IssuesPosStep(lines, dre, i, s))

ScanStart ==
    [te |-> None, pe |-> None, ie |-> None, tb |-> None,
     inT |-> FALSE, inP |-> FALSE, inI |-> FALSE, stop |-> FALSE]

FindIssuesTouchedInsertPosition(lines, dre) ==
    LET s == IssuesPosScan(lines, dre, 0, ScanStart)
        te == IF s.inT /\ s.te = None THEN Len(lines) ELSE s.te
        pe == IF s.inP /\ s.pe = None THEN Len(lines) ELSE s.pe
        ie == IF s.inI /\ s.ie = None THEN Len(lines) ELSE s.ie
    IN  IF te # None THEN te
        ELSE IF pe # None THEN pe
        ELSE IF ie # None THEN ie
        ELSE IF s.tb # None THEN s.tb
        ELSE dre

\* The result of a call of the function on mainLines with a Daily Review end
Position(p, dre) == [called |-> TRUE, pos |-> p, dre |-> dre]
NoPosition == [called |-> FALSE, pos |-> None, dre |-> None]

\* Lines that end the key search and the append scan of the daily writer
DailyIssueStop(l) == StartsHash(l) \/ IsSep(l) \/ l = TEMPLATE_BOUNDARY

\* Mutant: the key search never finds the identifier
DailyIssueExisting_NoSearch(lines, id) == None

\* Key search of upsert_daily_action_issue_touched: index of the first line
\* after the section header that matches the identifier, unless a header,
\* '---' or the template boundary comes first.
DailyIssueExisting(lines, id) ==
    LET hs == {i \in Idx(lines) : At(lines, i) = ISSUES_TOUCHED_HEADER}
    IN  IF hs = {} THEN None
        ELSE LET j == First({i \in Idx(lines) :
                        /\ i > SetMin(hs)
                        /\ At(lines, i) # ISSUES_TOUCHED_HEADER
                        /\ (DailyIssueStop(At(lines, i)) \/ MatchesIdentifier(At(lines, i), id))})
             IN  IF j # None /\ ~DailyIssueStop(At(lines, j)) THEN j ELSE None

\* Append scan when the section exists: after the last non-blank line that
\* precedes the first stop line following the header (None without header line).
DailyIssueAppendIndex(lines) ==
    LET hs == {i \in Idx(lines) : At(lines, i) = ISSUES_TOUCHED_HEADER}
    IN  IF hs = {} THEN None
        ELSE LET b0 == First({i \in Idx(lines) :
                         /\ i > SetMin(hs)
                         /\ At(lines, i) # ISSUES_TOUCHED_HEADER
                         /\ DailyIssueStop(At(lines, i))})
                 b == IF b0 = None THEN Len(lines) ELSE b0
             IN  1 + SetMax({i \in SetMin(hs) .. (b - 1) : ~IsBlank(At(lines, i))})

\* Block inserted when a section is created at insert_pos with blank lines
\* added only where the neighbours are not blank.
NewSectionBlock(lines, pos, header, entry) ==
    (IF pos > 0 /\ ~IsBlank(At(lines, pos - 1)) THEN <<Blank>> ELSE <<>>)
    \o <<header>> \o entry
    \o (IF pos < Len(lines) /\ ~IsBlank(At(lines, pos)) THEN <<Blank>> ELSE <<>>)

\* Mutant: the upload is made whatever the outcome
Res_UploadsAlways(ok, action, wrote, text, err) ==
    [ok |-> ok, action |-> action, wrote |-> TRUE, text |-> text, err |-> err]

\* Result of a writer: success, action, whether the store was written, the
\* full text uploaded and the error raised.
Res(ok, action, wrote, text, err) ==
    [ok |-> ok, action |-> action, wrote |-> wrote, text |-> text, err |-> err]

\* Mutant: a found identifier is rewritten whether or not the status changed
IssueAction_IgnoresChanged(ex, changed) ==
    IF ex = None THEN "inserted" ELSE "updated"

\* The three-way decision of both issue writers: found and unchanged is a
\* skip, found and changed an update, not found an insert.
IssueAction(ex, changed) ==
    IF ex = None THEN "inserted"
    ELSE IF changed THEN "updated"
    ELSE "skipped"

\* Body of upsert_daily_action_issue_touched once the file content F is read
DailyIssueUpsert(F, id, st, changed) ==
    LET ym == ParseYamlFrontmatter(F)
        lines == ym.main
        dre == DailyReviewEndOrZero(lines)
        entry == FormatIssueEntry(id, st)
        ex == DailyIssueExisting(lines, id)
        pos == FindIssuesTouchedInsertPosition(lines, dre)
        ai == DailyIssueAppendIndex(lines)
        act == IssueAction(ex, changed)
    IN  IF act = "skipped" THEN Res(TRUE, "skipped", FALSE, F, "")
        ELSE IF act = "updated"
        THEN Res(TRUE, "updated", TRUE,
                 ym.yaml \o [lines EXCEPT ![ex + 1] = entry], "")
        ELSE IF \E i \in Idx(lines) : ContainsHeader(At(lines, i), ISSUES_TOUCHED_HEADER)
        THEN Res(TRUE, "inserted", TRUE,
                 ym.yaml \o (IF ai = None THEN lines ELSE InsertAt(lines, ai, <<entry>>)), "")
        ELSE Res(TRUE, "inserted", TRUE,
                 ym.yaml \o InsertAt(lines, pos,
                                NewSectionBlock(lines, pos, ISSUES_TOUCHED_HEADER, <<entry>>)), "")

-----------------------------------------------------------------------------
(* Weekly Cycle: weekday subsection and Linear Issues Touched *)

\* Mutant: without the day header the whole note is taken as the subsection
FindDaySection_WholeNote(lines, day) ==
    LET hs == {i \in Idx(lines) : At(lines, i) = DayHdr(day)}
    IN  IF hs = {} THEN [start |-> 0, end |-> Len(lines)]
        ELSE LET e == First({i \in Idx(lines) : i > SetMin(hs) /\ IsSep(At(lines, i))})
                 end == IF e = None THEN Len(lines) ELSE e
             IN  [start |-> SetMax({i \in hs : i < end}), end |-> end]

\* The loop that finds day_section_start and day_section_end:
\* start is the last day header seen before the first '---' that follows a
\* day header, end that '---' (or len(lines)); start = None if no header.
FindDaySection(lines, day) ==
    LET hs == {i \in Idx(lines) : At(lines, i) = DayHdr(day)}
    IN  IF hs = {} THEN [start |-> None, end |-> None]
        ELSE LET e == First({i \in Idx(lines) : i > SetMin(hs) /\ IsSep(At(lines, i))
                                                   /\ At(lines, i) # DayHdr(day)})
                 end == IF e = None THEN Len(lines) ELSE e
             IN  [start |-> SetMax({i \in hs : i < end}), end |-> end]

WeeklyStop(l) == StartsHash(l) \/ IsSep(l)

\* Mutant: the key search runs over the whole note
WeeklyIssueExisting_AnyDay(lines, ds, id) ==
    LET hs == {i \in Idx(lines) : At(lines, i) = WC_ISSUES_TOUCHED_HEADER}
    IN  IF hs = {} THEN None
        ELSE LET j == First({i \in Idx(lines) :
                        /\ i > SetMin(hs)
                        /\ At(lines, i) # WC_ISSUES_TOUCHED_HEADER
                        /\ (WeeklyStop(At(lines, i)) \/ MatchesIdentifier(At(lines, i), id))})
             IN  IF j # None /\ ~WeeklyStop(At(lines, j)) THEN j ELSE None

\* Key search of upsert_weekly_cycle_issue_touched inside [start, end)
WeeklyIssueExisting(lines, ds, id) ==
    LET hs == {i \in ds.start .. (ds.end - 1) : At(lines, i) = WC_ISSUES_TOUCHED_HEADER}
    IN  IF hs = {} THEN None
        ELSE LET j == First({i \in ds.start .. (ds.end - 1) :
                        /\ i > SetMin(hs)
                        /\ At(lines, i) # WC_ISSUES_TOUCHED_HEADER
                        /\ (WeeklyStop(At(lines, i)) \/ MatchesIdentifier(At(lines, i), id))})
             IN  IF j # None /\ ~WeeklyStop(At(lines, j)) THEN j ELSE None

\* Append scan from issues_header_index: after the last non-blank line
\* before the next header or '---'.
WeeklyIssueAppendIndex(lines, ds, h) ==
    LET b0 == First({i \in (h + 1) .. (ds.end - 1) : WeeklyStop(At(lines, i))})
        b == IF b0 = None THEN ds.end ELSE b0
    IN  1 + SetMax({h} \cup {i \in (h + 1) .. (b - 1) : ~IsBlank(At(lines, i))})

\* "Find the last content line before the end separator": scanning back from
\* day_section_end - 1 down to day_section_start + 1.
DayTailInsertPos(lines, ds) ==
    LET c == {i \in (ds.start + 1) .. (ds.end - 1) :
                 IsSep(At(lines, i)) \/ ~IsBlank(At(lines, i))}
    IN  IF c = {} THEN ds.end
        ELSE IF IsSep(At(lines, SetMax(c))) THEN SetMax(c)
        ELSE SetMax(c) + 1

\* Body of upsert_weekly_cycle_issue_touched once the file content F is read
WeeklyIssueUpsert(F, day, id, st, changed) ==
    LET lines == F
        ds == FindDaySection(lines, day)
        entry == FormatIssueEntry(id, st)
    IN  IF ds.start = None THEN Res(FALSE, "none", FALSE, F, "day_section_missing")
        ELSE
        LET ex == WeeklyIssueExisting(lines, ds, id)
            h == First({i \in ds.start .. (ds.end - 1) : At(lines, i) = WC_ISSUES_TOUCHED_HEADER})
            act == IssueAction(ex, changed)
        IN  IF act = "skipped" THEN Res(TRUE, "skipped", FALSE, F, "")
            ELSE IF act = "updated"
            THEN Res(TRUE, "updated", TRUE, [lines EXCEPT ![ex + 1] = entry], "")
            ELSE IF h # None
            THEN Res(TRUE, "inserted", TRUE,
                     InsertAt(lines, WeeklyIssueAppendIndex(lines, ds, h), <<entry>>), "")
            ELSE Res(TRUE, "inserted", TRUE,
                     InsertAt(lines, DayTailInsertPos(lines, ds),
                              <<Blank, WC_ISSUES_TOUCHED_HEADER, entry, Blank>>), "")

-----------------------------------------------------------------------------
(* Initiative / Project updates: entry formatting *)

\* Pairs <<u, x>> of distinct urls with u a substring of x
UrlSubstringPairs == {<<"U1", "U10">>}

\* Mutant: no line is ever found to hold the url
ContainsUrl_Never(l, u) == FALSE

\* url in line
ContainsUrl(l, u) ==
    \/ u = ""
    \/ l.k \in {"upd", "manus", "gh"} /\ (l.a = u \/ <<u, l.a>> \in UrlSubstringPairs)

\* LOG_ENTRY_PATTERN of the update writers: ^\[\d{2}:\d{2}\]
MatchesLogEntryStrict(l) == l.k = "upd"
\* LOG_ENTRY_PATTERN of the completed-task and GitHub writers: ^\[\d{2}:\d{2}
MatchesLogEntry(l) == l.k \in {"upd", "task", "gh"}

\* A content line of an entry in a note: body b, line n, class cls
BodyLine(b, n, cls) == L("body", b, n, cls)

\* A line of the update body as Linear sends it: leading blanks and what
\* follows them ('*' or '+' and a blank, '#', or plain text)
SrcLine(indent, mark) == [indent |-> indent, mark |-> mark]

\* The bodies: "s1" one line of prose; "bul" the bullets '* a' / '  + b';
\* "md" prose, a '## ' heading, prose.
BodyText(b) ==
    CASE b = "bul" -> <<SrcLine(0, "*"), SrcLine(2, "+")>>
      [] b = "md" -> <<SrcLine(0, "text"), SrcLine(0, "#"), SrcLine(0, "text")>>
      [] OTHER -> <<SrcLine(0, "text")>>

\* re.sub(r'^(\s*)\+(\s+)', r'\1        -\2') and then
\* re.sub(r'^(\s*)\*(\s+)', r'\1    -\2'): 8, resp. 4, blanks and a dash
NormalizeBullet(l) ==
    IF l.mark = "+" THEN SrcLine(l.indent + 8, "-")
    ELSE IF l.mark = "*" THEN SrcLine(l.indent + 4, "-")
    ELSE l

\* normalized_content.strip(): the blanks before the first line's text go
StripContent(t) == IF t = <<>> THEN t ELSE [t EXCEPT ![1].indent = 0]

\* What the scanners see of a content line: a dash line with its
\* indentation, a line whose strip() starts with '#', or other text
LineClass(l) ==
    CASE l.mark = "#" -> "hash"
      [] l.mark = "-" /\ l.indent = 0 -> "dash0"
      [] l.mark = "-" /\ l.indent = 4 -> "dash4"
      [] l.mark = "-" /\ l.indent = 8 -> "dash8"
      [] l.mark = "-" /\ l.indent = 10 -> "dash10"
      [] OTHER -> "plain"

\* line.strip().startswith(('*', '-', '+')) on a content line
StartsBullet(l) == l.c \in {"dash0", "dash4", "dash8", "dash10"}

LineNumbers == <<"1", "2", "3">>

\* content_lines after bullet normalisation, strip() and split('\n')
ContentLines(b) ==
    LET cl == StripContent([n \in 1 .. Len(BodyText(b)) |-> NormalizeBullet(BodyText(b)[n])])
    IN  [n \in 1 .. Len(cl) |-> BodyLine(b, LineNumbers[n], LineClass(cl[n]))]

\* log_entry: "[HH:MM] - [name](url): body" on one line for a single
\* non-bulleted line, else the header line followed by the content lines.
FormatUpdateEntry(ts, url, b) ==
    LET cl == ContentLines(b)
    IN  IF Len(cl) = 1 /\ ~StartsBullet(cl[1])
        THEN <<L("upd", url, ts, b)>>
        ELSE <<L("upd", url, ts, "")>> \o cl

\* _get_section_header
GetSectionHeader(lvl, sectionType) ==
    IF sectionType = "initiative" THEN Hdr(lvl, "Initiative Updates:")
    ELSE Hdr(lvl, "Project Updates:")

\* Position of header h in seq order, 0 if absent
RECURSIVE OrderIndex(_, _)
OrderIndex(order, h) ==
    IF order = <<>> THEN 0
    ELSE IF Head(order) = h THEN 1
    ELSE IF OrderIndex(Tail(order), h) = 0 THEN 0
    ELSE 1 + OrderIndex(Tail(order), h)

\* header_positions[h]: last index in [from, to) whose line equals h, or None
HeaderPosition(lines, from, to, h) ==
    LET hs == {i \in from .. (to - 1) : At(lines, i) = h}
    IN  IF hs = {} THEN None ELSE SetMax(hs)

\* Mutant: no later header is ever found
InsertBeforeIndex_NoLater(lines, from, to, order, target) == None

\* "Find the first existing header that comes after our target"
InsertBeforeIndex(lines, from, to, order, target) ==
    LET later == {k \in (OrderIndex(order, target) + 1) .. Len(order) :
                     HeaderPosition(lines, from, to, order[k]) # None}
    IN  IF later = {} THEN None
        ELSE HeaderPosition(lines, from, to, order[SetMin(later)])

-----------------------------------------------------------------------------
(* upsert_daily_action_update *)

DailySectionOrder ==
    <<INITIATIVE_UPDATES_HEADER, PROJECT_UPDATES_HEADER, TODOIST_COMPLETED_HEADER>>

\* End of the block that starts at ex: the next [HH:MM] line or '#' line
\* before `to`, else `to`.
EntryEnd(lines, ex, to) ==
    LET b == First({i \in (ex + 1) .. (to - 1) :
                       MatchesLogEntryStrict(At(lines, i)) \/ StartsHash(At(lines, i))})
    IN  IF b = None THEN to ELSE b

DailyUpdateUpsert(F, ts, sectionType, url, b) ==
    LET ym == ParseYamlFrontmatter(F)
        lines == ym.main
        n == Len(lines)
        dre == DailyReviewEndOrZero(lines)
        entry == FormatUpdateEntry(ts, url, b)
        ex == First({i \in Idx(lines) : ContainsUrl(At(lines, i), url)})
        target == GetSectionHeader("3", sectionType)
        hp == HeaderPosition(lines, dre, n, target)
        ibi == InsertBeforeIndex(lines, dre, n, DailySectionOrder, target)
        block == <<Blank, target>> \o entry \o <<Blank>>
    IN  IF ex # None
        THEN LET ee == EntryEnd(lines, ex, n)
                 sep == IF ee < n /\ MatchesLogEntryStrict(At(lines, ee))
                        THEN <<Blank>> ELSE <<>>
             IN  Res(TRUE, "updated", TRUE,
                     ym.yaml \o Slice(lines, 0, ex) \o entry \o sep \o Slice(lines, ee, n), "")
        ELSE IF hp # None
        THEN LET b0 == First({i \in (hp + 1) .. (n - 1) : StartsHash(At(lines, i))})
                 ii == IF b0 = None THEN n ELSE b0
                 pre == IF ii > 0 /\ ~IsBlank(At(lines, ii - 1)) THEN <<Blank>> ELSE <<>>
             IN  Res(TRUE, "inserted", TRUE,
                     ym.yaml \o InsertAt(lines, ii, pre \o entry), "")
        ELSE IF ibi # None
        THEN Res(TRUE, "inserted", TRUE, ym.yaml \o InsertAt(lines, ibi, block), "")
        ELSE Res(TRUE, "inserted", TRUE, ym.yaml \o InsertAt(lines, dre, block), "")

-----------------------------------------------------------------------------
(* upsert_weekly_cycle_update *)

WeeklySectionOrder ==
    <<WC_INITIATIVE_UPDATES_HEADER, WC_PROJECT_UPDATES_HEADER, WC_COMPLETED_TASKS_HEADER,
      WC_ISSUES_TOUCHED_HEADER, WEEKLY_CYCLE_HEADER>>

WeeklyUpdateUpsert(F, day, ts, sectionType, url, b) ==
    LET lines == F
        n == Len(lines)
        ds == FindDaySection(lines, day)
        entry == FormatUpdateEntry(ts, url, b)
        target == GetSectionHeader("5", sectionType)
        block == <<Blank, target>> \o entry \o <<Blank>>
    IN  IF ds.start = None THEN Res(FALSE, "none", FALSE, F, "day_section_missing")
        ELSE
        LET ex == First({i \in ds.start .. (ds.end - 1) : ContainsUrl(At(lines, i), url)})
            hp == HeaderPosition(lines, ds.start, ds.end, target)
            ibi == InsertBeforeIndex(lines, ds.start, ds.end, WeeklySectionOrder, target)
        IN  IF ex # None
            THEN LET ee == EntryEnd(lines, ex, ds.end)
                     sep == IF ee < n /\ (MatchesLogEntryStrict(At(lines, ee))
                                           \/ StartsHash(At(lines, ee)))
                            THEN <<Blank>> ELSE <<>>
                 IN  Res(TRUE, "updated", TRUE,
                         Slice(lines, 0, ex) \o entry \o sep \o Slice(lines, ee, n), "")
            ELSE IF hp # None
            THEN LET b0 == First({i \in (hp + 1) .. (ds.end - 1) : StartsHash(At(lines, i))})
                     ii == IF b0 = None THEN ds.end ELSE b0
                     pre == IF ii > 0 /\ ~IsBlank(At(lines, ii - 1)) THEN <<Blank>> ELSE <<>>
                     post == IF ii < n /\ StartsHash(At(lines, ii)) THEN <<Blank>> ELSE <<>>
                 IN  Res(TRUE, "inserted", TRUE,
                         InsertAt(lines, ii, pre \o entry \o post), "")
            ELSE IF ibi # None
            THEN Res(TRUE, "inserted", TRUE, InsertAt(lines, ibi, block), "")
            ELSE Res(TRUE, "inserted", TRUE,
                     InsertAt(lines, DayTailInsertPos(lines, ds), block), "")

-----------------------------------------------------------------------------
(* append_todoist_completed *)

\* log_entry: "[HH:MM AM] <task_content>", the text as it was passed
TaskLine(ts, text) == L("task", text, ts, "")

\* str.strip() on a task text: " T1 " is "T1" with blanks around it
Strip(text) == IF text = " T1 " THEN "T1" ELSE text

\* extract_task_contents_from_section: texts of the log entries that follow
\* the first header line, up to the first line that is neither a log entry
\* nor blank.  group(1) of an update or GitHub entry is never a task text.
ExtractTaskContentsFromSection(lines, header) ==
    LET hs == {i \in Idx(lines) : At(lines, i) = header}
    IN  IF hs = {} THEN {}
        ELSE LET b0 == First({i \in Idx(lines) :
                         /\ i > SetMin(hs)
                         /\ At(lines, i) # header
                         /\ ~MatchesLogEntry(At(lines, i))
                         /\ ~IsBlank(At(lines, i))})
                 b == IF b0 = None THEN Len(lines) ELSE b0
             IN  {Strip(At(lines, i).a) : i \in {j \in (SetMin(hs) + 1) .. (b - 1) :
                                                      At(lines, j).k = "task"}}

\* Mutant: the new text is compared as passed, not stripped
IsTaskDuplicate_NoStrip(text, existing) == text \in existing

\* is_task_duplicate
IsTaskDuplicate(text, existing) == Strip(text) \in existing

\* Insert index of a Log Entry section: after the last header or log-entry
\* line before the section's first other non-blank line; None without header.
LogSectionAppendIndex(lines, header) ==
    LET hs == {i \in Idx(lines) : At(lines, i) = header}
    IN  IF hs = {} THEN None
        ELSE LET b0 == First({i \in Idx(lines) :
                         /\ i > SetMin(hs)
                         /\ At(lines, i) # header
                         /\ ~MatchesLogEntry(At(lines, i))
                         /\ ~IsBlank(At(lines, i))})
                 b == IF b0 = None THEN Len(lines) ELSE b0
             IN  1 + SetMax({i \in SetMin(hs) .. (b - 1) :
                               At(lines, i) = header \/ MatchesLogEntry(At(lines, i))})

\* One iteration of the scan of _find_todoist_insert_position
TodoistPosStep(lines, dre, i, s) ==
    LET l == At(lines, i) IN
    IF i < dre THEN s
    ELSE IF l = INITIATIVE_UPDATES_HEADER
    THEN [s EXCEPT !.inI = TRUE, !.inP = FALSE]
    ELSE IF l = PROJECT_UPDATES_HEADER
    THEN [s EXCEPT !.inP = TRUE, !.inI = FALSE,
                   !.ie = IF s.ie = None
                             /\ \E j \in dre .. (i - 1) :
                                   ContainsHeader(At(lines, j), INITIATIVE_UPDATES_HEADER)
                          THEN i ELSE s.ie]
    ELSE IF StartsHash(l) \/ IsSep(l)
    THEN [s EXCEPT !.ie = IF s.inI THEN i ELSE s.ie, !.inI = FALSE,
                   !.pe = IF s.inP THEN i ELSE s.pe, !.inP = FALSE]
    ELSE IF l = TEMPLATE_BOUNDARY
    THEN [s EXCEPT !.tb = i, !.stop = TRUE,
                   !.ie = IF s.inI THEN i ELSE s.ie,
                   !.pe = IF s.inP THEN i ELSE s.pe]
    ELSE s

RECURSIVE TodoistPosScan(_, _, _, _)
TodoistPosScan(lines, dre, i, s) ==
    IF i >= Len(lines) \/ s.stop THEN s
    ELSE TodoistPosScan(lines, dre, i + 1, TodoistPosStep(lines, dre, i, s))

\* Mutant: a new section goes to the end of the text
FindTodoistInsertPosition_EndOfText(lines, dre) == Len(lines)

\* _find_todoist_insert_position: after Project Updates, else after
\* Initiative Updates, else the template-boundary line, else the Daily Review
\* end
FindTodoistInsertPosition(lines, dre) ==
    LET s == TodoistPosScan(lines, dre, 0, ScanStart)
        ie == IF s.inI /\ s.ie = None THEN Len(lines) ELSE s.ie
        pe == IF s.inP /\ s.pe = None THEN Len(lines) ELSE s.pe
    IN  IF pe # None THEN pe
        ELSE IF ie # None THEN ie
        ELSE IF s.tb # None THEN s.tb
        ELSE dre

\* Body of append_todoist_completed once the file content F is read; the
\* function returns None, action records which path was taken.
TodoistAppend(F, ts, text) ==
    LET ym == ParseYamlFrontmatter(F)
        lines == ym.main
        dre == DailyReviewEndOrZero(lines)
        entry == TaskLine(ts, text)
        ai == LogSectionAppendIndex(lines, TODOIST_COMPLETED_HEADER)
        pos == FindTodoistInsertPosition(lines, dre)
    IN  IF IsTaskDuplicate(text, ExtractTaskContentsFromSection(F, TODOIST_COMPLETED_HEADER))
        THEN Res(TRUE, "skipped", FALSE, F, "")
        ELSE IF \E i \in Idx(lines) : ContainsHeader(At(lines, i), TODOIST_COMPLETED_HEADER)
        THEN Res(TRUE, "inserted", TRUE,
                 ym.yaml \o (IF ai = None THEN lines ELSE InsertAt(lines, ai, <<entry>>)), "")
        ELSE Res(TRUE, "inserted", TRUE,
                 ym.yaml \o InsertAt(lines, pos,
                                NewSectionBlock(lines, pos, TODOIST_COMPLETED_HEADER, <<entry>>)), "")

-----------------------------------------------------------------------------
(* append_weekly_cycle_completed *)

\* Its own day-section loop: the section also ends at a line that starts
\* with '###' and is not the Completed Tasks header.
FindDaySectionCompleted(lines, day) ==
    LET hs == {i \in Idx(lines) : At(lines, i) = DayHdr(day)}
    IN  IF hs = {} THEN [start |-> None, end |-> None, chi |-> None]
        ELSE LET e == First({i \in Idx(lines) :
                        /\ i > SetMin(hs)
                        /\ At(lines, i) # DayHdr(day)
                        /\ At(lines, i) # WC_COMPLETED_TASKS_HEADER
                        /\ (IsSep(At(lines, i)) \/ StartsTripleHash(At(lines, i)))})
                 end == IF e = None THEN Len(lines) ELSE e
                 start == SetMax({i \in hs : i < end})
                 cs == {i \in (SetMin(hs) + 1) .. (end - 1) :
                           At(lines, i) = WC_COMPLETED_TASKS_HEADER}
             IN  [start |-> start, end |-> end,
                  chi |-> IF cs = {} THEN None ELSE SetMax(cs)]

WeeklyCompletedAppend(F, day, ts, text) ==
    LET lines == F
        ds == FindDaySectionCompleted(lines, day)
        entry == TaskLine(ts, text)
    IN  IF ds.start = None THEN Res(FALSE, "none", FALSE, F, "day_section_missing")
        ELSE IF ds.chi # None
        THEN LET b0 == First({i \in (ds.chi + 1) .. (ds.end - 1) :
                           ~MatchesLogEntry(At(lines, i)) /\ ~IsBlank(At(lines, i))})
                 b == IF b0 = None THEN ds.end ELSE b0
                 ii == 1 + SetMax({ds.chi} \cup {i \in (ds.chi + 1) .. (b - 1) :
                                                    MatchesLogEntry(At(lines, i))})
             IN  Res(TRUE, "inserted", TRUE, InsertAt(lines, ii, <<entry>>), "")
        ELSE LET cs == {i \in (ds.start + 1) .. (ds.end - 1) :
                           ~IsBlank(At(lines, i)) /\ ~IsSep(At(lines, i))}
                 lci == IF cs = {} THEN ds.start ELSE SetMax(cs)
                 nb == First({i \in (lci + 1) .. (ds.end - 1) : ~IsBlank(At(lines, i))})
                 pos == IF nb = None THEN ds.end ELSE nb
             IN  Res(TRUE, "inserted", TRUE,
                     InsertAt(lines, pos, <<Blank, WC_COMPLETED_TASKS_HEADER, entry, Blank>>), "")

-----------------------------------------------------------------------------
(* Manus tasks *)

\* log_entry: "- <title> ([<id>](<url>))"
ManusLine(url) == L("manus", url, "", "")

\* _get_daily_section_order
ManusDailySectionOrder ==
    <<INITIATIVE_UPDATES_HEADER, PROJECT_UPDATES_HEADER, TODOIST_COMPLETED_HEADER,
      ISSUES_TOUCHED_HEADER, DAILY_ACTION_HEADER>>

\* Entry followed by a blank line when the line after it is not blank
EntryThenGap(lines, ii, entry) ==
    <<entry>> \o (IF ii < Len(lines) /\ ~IsBlank(At(lines, ii)) THEN <<Blank>> ELSE <<>>)

\* _upsert_daily_action_manus_touched once the file content F is read
DailyManusUpsert(F, url) ==
    LET ym == ParseYamlFrontmatter(F)
        lines == ym.main
        n == Len(lines)
        dre == DailyReviewEndOrZero(lines)
        entry == ManusLine(url)
        target == DAILY_ACTION_HEADER
        hp == HeaderPosition(lines, dre, n, target)
        ibi == InsertBeforeIndex(lines, dre, n, ManusDailySectionOrder, target)
        tbs == {i \in dre .. (n - 1) : At(lines, i) = TEMPLATE_BOUNDARY}
        block == <<Blank, target, entry, Blank>>
    IN  IF \E i \in Idx(lines) : ContainsUrl(At(lines, i), url)
        THEN Res(TRUE, "skipped", FALSE, F, "")
        ELSE IF hp # None
        THEN LET b0 == First({i \in (hp + 1) .. (n - 1) :
                           DailyIssueStop(At(lines, i)) \/ IsBlank(At(lines, i))})
                 ii == IF b0 = None THEN n ELSE b0
             IN  Res(TRUE, "inserted", TRUE,
                     ym.yaml \o InsertAt(lines, ii, EntryThenGap(lines, ii, entry)), "")
        ELSE IF ibi # None
        THEN Res(TRUE, "inserted", TRUE, ym.yaml \o InsertAt(lines, ibi, block), "")
        ELSE Res(TRUE, "inserted", TRUE,
                 ym.yaml \o InsertAt(lines, IF tbs = {} THEN dre ELSE SetMax(tbs), block), "")

\* _upsert_weekly_cycle_manus_touched once the file content F is read
WeeklyManusUpsert(F, day, url) ==
    LET lines == F
        ds == FindDaySection(lines, day)
        entry == ManusLine(url)
        target == WEEKLY_CYCLE_HEADER
        block == <<Blank, target, entry, Blank>>
    IN  IF ds.start = None THEN Res(FALSE, "none", FALSE, F, "day_section_missing")
        ELSE
        LET hp == HeaderPosition(lines, ds.start, ds.end, target)
            ibi == InsertBeforeIndex(lines, ds.start, ds.end, WeeklySectionOrder, target)
        IN  IF \E i \in ds.start .. (ds.end - 1) : ContainsUrl(At(lines, i), url)
            THEN Res(TRUE, "skipped", FALSE, F, "")
            ELSE IF hp # None
            THEN LET b0 == First({i \in (hp + 1) .. (ds.end - 1) :
                               StartsHash(At(lines, i)) \/ IsBlank(At(lines, i))})
                     ii == IF b0 = None THEN ds.end ELSE b0
                 IN  Res(TRUE, "inserted", TRUE,
                         InsertAt(lines, ii, EntryThenGap(lines, ii, entry)), "")
            ELSE IF ibi # None
            THEN Res(TRUE, "inserted", TRUE, InsertAt(lines, ibi, block), "")
            ELSE Res(TRUE, "inserted", TRUE,
                     InsertAt(lines, DayTailInsertPos(lines, ds), block), "")

-----------------------------------------------------------------------------
(* append_github_activity *)

\* log_entry: "[HH:MM AM] [<repo>: <title>](<url>)"
GithubLine(ts, url) == L("gh", url, ts, "")

\* text[k:].lstrip('\n') as lines, for the text that starts at line k
RestLStripped(lines, k) ==
    LET r == LStripBlank(Slice(lines, k, Len(lines)))
    IN  IF r = <<>> THEN <<Blank>> ELSE r

\* main_content[:c] + "\n" + new_section + main_content[c:].lstrip('\n'),
\* where c is the character index of the start of line k (k = len(lines)
\* when c lies past the end of the text).
SpliceSectionAtChar(lines, k, header, entry) ==
    IF k < Len(lines)
    THEN Slice(lines, 0, k) \o <<Blank, header, entry>> \o RestLStripped(lines, k)
    ELSE lines \o <<header, entry, Blank>>

\* _find_todoist_section_end, as the index of the line that starts there
FindTodoistSectionEnd(lines) == LogSectionAppendIndex(lines, TODOIST_COMPLETED_HEADER)

GithubAppend(F, ts, url) ==
    LET ym == ParseYamlFrontmatter(F)
        lines == ym.main
        entry == GithubLine(ts, url)
        ai == LogSectionAppendIndex(lines, GITHUB_ACTIVITY_HEADER)
        te == FindTodoistSectionEnd(lines)
        dre == FindDailyReviewEnd(lines)
    IN  IF \E i \in Idx(lines) : ContainsHeader(At(lines, i), GITHUB_ACTIVITY_HEADER)
        THEN Res(TRUE, "inserted", TRUE,
                 ym.yaml \o (IF ai = None THEN lines ELSE InsertAt(lines, ai, <<entry>>)), "")
        ELSE IF te # None
        THEN Res(TRUE, "inserted", TRUE,
                 ym.yaml \o SpliceSectionAtChar(lines, te, GITHUB_ACTIVITY_HEADER, entry), "")
        ELSE IF dre # None
        THEN Res(TRUE, "inserted", TRUE,
                 ym.yaml \o SpliceSectionAtChar(lines, dre, GITHUB_ACTIVITY_HEADER, entry), "")
        ELSE Res(TRUE, "inserted", TRUE,
                 ym.yaml \o <<GITHUB_ACTIVITY_HEADER, entry, Blank>> \o lines, "")

-----------------------------------------------------------------------------
(* remove_todoist_completed *)

\* Pairs <<t, x>> of distinct task texts with t a substring of x
TaskSubstringPairs == {<<"T1", " T1 ">>, <<"T1", "T12">>}

\* task_content in line, for a log line of a completed task
TaskContentIn(text, l) ==
    l.k = "task" /\ (l.a = text \/ <<text, l.a>> \in TaskSubstringPairs)

\* The first loop: inside the Todoist section the log lines that contain
\* task_content are dropped; the section is left at the first non-blank
\* line that is not a log line.  kept = updated_lines.
RECURSIVE RemoveTaskLines(_, _, _, _)
RemoveTaskLines(lines, text, i, in_todoist_section) ==
    IF i >= Len(lines) THEN [kept |-> <<>>, task_removed |-> FALSE]
    ELSE LET l == At(lines, i)
         IN  IF l = TODOIST_COMPLETED_HEADER
             THEN LET r == RemoveTaskLines(lines, text, i + 1, TRUE)
                  IN  [r EXCEPT !.kept = <<l>> \o @]
             ELSE IF in_todoist_section /\ MatchesLogEntry(l) /\ TaskContentIn(text, l)
             THEN [RemoveTaskLines(lines, text, i + 1, TRUE) EXCEPT !.task_removed = TRUE]
             ELSE LET stay == in_todoist_section /\ (IsBlank(l) \/ MatchesLogEntry(l))
                      r == RemoveTaskLines(lines, text, i + 1, stay)
                  IN  [r EXCEPT !.kept = <<l>> \o @]

\* section_has_entries for the header at index i
SectionHasEntries(lines, i) ==
    LET j == First({x \in (i + 1) .. (Len(lines) - 1) :
                       MatchesLogEntry(At(lines, x)) \/ ~IsBlank(At(lines, x))})
    IN  j # None /\ MatchesLogEntry(At(lines, j))

\* The second loop, from index i: the header of a section without entries is
\* skipped together with the blank lines that follow it.
RECURSIVE DropEmptySections(_, _)
DropEmptySections(lines, i) ==
    IF i >= Len(lines) THEN <<>>
    ELSE IF At(lines, i) = TODOIST_COMPLETED_HEADER /\ ~SectionHasEntries(lines, i)
    THEN LET j == First({x \in (i + 1) .. (Len(lines) - 1) : ~IsBlank(At(lines, x))})
         IN  DropEmptySections(lines, IF j = None THEN Len(lines) ELSE j)
    ELSE <<At(lines, i)>> \o DropEmptySections(lines, i + 1)

\* Body of remove_todoist_completed once the file content F is read; the
\* function returns task_removed, recorded as the action.
TodoistRemove(F, text) ==
    IF \A i \in Idx(F) : At(F, i) # TODOIST_COMPLETED_HEADER
    THEN Res(TRUE, "not_removed", FALSE, F, "")
    ELSE LET r == RemoveTaskLines(F, text, 0, FALSE)
         IN  IF ~r.task_removed THEN Res(TRUE, "not_removed", FALSE, F, "")
             ELSE Res(TRUE, "removed", TRUE, DropEmptySections(r.kept, 0), "")

-----------------------------------------------------------------------------
(* Clock, rollover and fixtures *)

DAY_ROLLOVER_HOUR == 3

DayNames == <<"Monday", "Tuesday", "Wednesday", "Thursday", "Friday", "Saturday", "Sunday">>

\* The instants at which events arrive: weekday() (Monday = 0), hour, "%H:%M"
Instants ==
    <<[dow |-> 2, hour |-> 14, ts |-> "14:05"],
      [dow |-> 3, hour |-> 1, ts |-> "01:30"],
      [dow |-> 3, hour |-> 9, ts |-> "09:00"],
      [dow |-> 4, hour |-> 9, ts |-> "09:00"]>>

\* get_effective_date, on the weekday: the previous day before 3am
GetEffectiveDow(t) ==
    IF t.hour < DAY_ROLLOVER_HOUR THEN (t.dow - 1) % 7 ELSE t.dow

\* _get_current_day_name of the writers that apply the rollover
EffectiveDayName(n) == DayNames[GetEffectiveDow(Instants[n]) + 1]
\* _get_current_day_name of add_weekly_cycle_completed: no rollover
RawDayName(n) == DayNames[Instants[n].dow + 1]

\* The writers whose _get_today_daily_action_path or _get_current_day_name
\* format datetime.now() as it is, without get_effective_date
CalendarDayWriters ==
    {"append_github_activity", "remove_todoist_completed", "append_weekly_cycle_completed"}

\* The day whose Daily Action file or weekday subsection writer op resolves
WriterDayName(op, n) ==
    IF op \in CalendarDayWriters THEN RawDayName(n) ELSE EffectiveDayName(n)

Stamp(n) == Instants[n].ts

\* A provisioned Daily Action note: front matter, Daily Review, template
DailyTemplate ==
    <<Sep, Text("date: 2026-02-11"), Sep, Blank,
      DailyReviewLine, Text("Had a good day"), Sep, Blank,
      TEMPLATE_BOUNDARY, Text("Vision Objective 1 content here")>>

\* The same note without front matter
DailyTemplateNoYaml == Slice(DailyTemplate, 4, Len(DailyTemplate))

\* The same note with Daily Review right below the front matter
DailyTemplateTightYaml == Slice(DailyTemplate, 0, 3) \o DailyTemplateNoYaml

DailyFixtures == {DailyTemplate, DailyTemplateNoYaml, DailyTemplateTightYaml}

\* A provisioned Weekly Cycle note; the Friday subsection was never created
WeeklyTemplate ==
    <<DayHdr("Wednesday"), Blank, Sep,
      DayHdr("Thursday"), Blank, Sep>>

IssueIds == {"GD-100", "GD-200"}
Statuses == {"Todo", "Done"}
SectionTypes == {"initiative", "project"}
Urls == {"", "U1", "U2"}
Bodies == {"s1", "bul", "md"}
Tasks == {"T1", " T1 ", "T2", "T12"}
ManusUrls == {"M1", "M2"}
GithubUrls == {"G1"}

-----------------------------------------------------------------------------
(* Outcomes *)

NoCall == [called |-> FALSE, ok |-> FALSE, raised |-> FALSE, action |-> "none",
           err |-> "", writes |-> 0]

\* What the caller of a writer observes: r is the writer's result, raises
\* tells whether the writer lets its exceptions propagate.
Out(r, raises) ==
    [called |-> TRUE, ok |-> r.ok, raised |-> raises /\ ~r.ok, action |-> r.action,
     err |-> r.err, writes |-> IF r.wrote THEN 1 ELSE 0]

\* FileNotFoundError from the download of a file that does not exist
NotFound(F) == Res(FALSE, "none", FALSE, F, "not_found")

\* Mutant: the upload adds the text to what the file holds
Stored_Appends(F, r) == IF r.wrote THEN F \o r.text ELSE F

\* dbx.files_upload(..., mode=WriteMode.overwrite): the file holds the
\* uploaded text, whatever it held before
Stored(F, r) == IF r.wrote THEN r.text ELSE F

Last(op, key, flag, body, d, w) ==
    [op |-> op, key |-> key, flag |-> flag, body |-> body, da |-> d, wc |-> w]

\* Arguments of an invocation that writes both notes; op = "none" outside one
Pending(op, key, flag, body, st, sectionType) ==
    [op |-> op, key |-> key, flag |-> flag, body |-> body, st |-> st,
     sectionType |-> sectionType]
NoPending == Pending("none", "", FALSE, "", "", "")

-----------------------------------------------------------------------------
(* Writers as operations on the store *)

Init ==
    /\ da \in DailyFixtures
    /\ daPresent = TRUE
    /\ wc = WeeklyTemplate
    /\ wcPresent \in BOOLEAN
    /\ now = 1
    /\ ops = 0
    /\ last = Last("none", "", FALSE, "", NoCall, NoCall)
    /\ pending = NoPending
    /\ clock = [ord |-> 0, hour |-> 0]
    /\ calc = [op |-> "none", previous |-> FALSE,
               start |-> [ord |-> 0, hour |-> 0], end |-> [ord |-> 0, hour |-> 0]]
    /\ line = <<>>
    /\ seen = [pattern |-> "none", match |-> FALSE]
    /\ inv = <<>>
    /\ writeLog = <<>>
    /\ mainLines = <<>>
    /\ insertPos = NoPosition

DailyOp(op, key, flag, body, r, raises) ==
    /\ ops < MaxOps
    /\ ops' = ops + 1
    /\ da' = Stored(da, r)
    /\ last' = Last(op, key, flag, body, Out(r, raises), NoCall)
    /\ UNCHANGED <<daPresent, wc, wcPresent, now, pending, dateVars, logVars, raceVars, posVars>>

WeeklyOp(op, key, flag, body, r, raises) ==
    /\ ops < MaxOps
    /\ ops' = ops + 1
    /\ wc' = Stored(wc, r)
    /\ last' = Last(op, key, flag, body, NoCall, Out(r, raises))
    /\ UNCHANGED <<da, daPresent, wcPresent, now, pending, dateVars, logVars, raceVars, posVars>>

DailyIssueResult(id, st, changed) ==
    IF daPresent THEN DailyIssueUpsert(da, id, st, changed) ELSE NotFound(da)
WeeklyIssueResult(id, st, changed) ==
    IF wcPresent
    THEN WeeklyIssueUpsert(wc, WriterDayName("upsert_weekly_cycle_issue_touched", now),
                           id, st, changed)
    ELSE NotFound(wc)
DailyUpdateResult(sectionType, url, b) ==
    IF daPresent THEN DailyUpdateUpsert(da, Stamp(now), sectionType, url, b) ELSE NotFound(da)
WeeklyUpdateResult(sectionType, url, b) ==
    IF wcPresent
    THEN WeeklyUpdateUpsert(wc, WriterDayName("upsert_weekly_cycle_update", now),
                            Stamp(now), sectionType, url, b)
    ELSE NotFound(wc)
TodoistResult(text) ==
    IF daPresent THEN TodoistAppend(da, Stamp(now), text) ELSE NotFound(da)
WeeklyCompletedResult(text) ==
    IF wcPresent
    THEN WeeklyCompletedAppend(wc, WriterDayName("append_weekly_cycle_completed", now),
                               Stamp(now), text)
    ELSE NotFound(wc)
DailyManusResult(url) ==
    IF daPresent THEN DailyManusUpsert(da, url) ELSE NotFound(da)
WeeklyManusResult(url) ==
    IF wcPresent
    THEN WeeklyManusUpsert(wc, WriterDayName("_upsert_weekly_cycle_manus_touched", now), url)
    ELSE NotFound(wc)
\* append_github_activity resolves the file of the calendar day of now (no
\* rollover): before 03:00 that is not the note of the effective day; it is
\* appended to when it exists and the download raises when it does not.
GithubResult(url, elsewhere) ==
    IF WriterDayName("append_github_activity", now) # EffectiveDayName(now)
    THEN IF elsewhere THEN Res(TRUE, "inserted_elsewhere", FALSE, da, "")
         ELSE NotFound(da)
    ELSE IF daPresent THEN GithubAppend(da, Stamp(now), url) ELSE NotFound(da)
\* remove_todoist_completed resolves the file of the calendar day of now
\* (no rollover): before 03:00 that is not the note of the effective day, and
\* the note held here is not the one read.  "except FileNotFoundError:
\* return False".
TodoistRemoveResult(text, removedElsewhere) ==
    IF WriterDayName("remove_todoist_completed", now) # EffectiveDayName(now)
    THEN Res(TRUE, IF removedElsewhere THEN "removed" ELSE "not_removed", FALSE, da, "")
    ELSE IF daPresent THEN TodoistRemove(da, text)
    ELSE Res(TRUE, "not_removed", FALSE, da, "")

upsert_daily_action_issue_touched ==
    \E id \in IssueIds, st \in Statuses, changed \in BOOLEAN :
        DailyOp("upsert_daily_action_issue_touched", id, changed, st,
                DailyIssueResult(id, st, changed), FALSE)

upsert_weekly_cycle_issue_touched ==
    \E id \in IssueIds, st \in Statuses, changed \in BOOLEAN :
        WeeklyOp("upsert_weekly_cycle_issue_touched", id, changed, st,
                 WeeklyIssueResult(id, st, changed), FALSE)

upsert_daily_action_update ==
    \E sectionType \in SectionTypes, url \in Urls, b \in Bodies :
        DailyOp("upsert_daily_action_update", url, FALSE, b,
                DailyUpdateResult(sectionType, url, b), FALSE)

upsert_weekly_cycle_update ==
    \E sectionType \in SectionTypes, url \in Urls, b \in Bodies :
        WeeklyOp("upsert_weekly_cycle_update", url, FALSE, b,
                 WeeklyUpdateResult(sectionType, url, b), FALSE)

append_todoist_completed ==
    \E text \in Tasks :
        DailyOp("append_todoist_completed", text, FALSE, "", TodoistResult(text), TRUE)

append_weekly_cycle_completed ==
    \E text \in Tasks :
        WeeklyOp("append_weekly_cycle_completed", text, FALSE, "",
                 WeeklyCompletedResult(text), TRUE)

upsert_daily_action_manus_touched ==
    \E url \in ManusUrls :
        DailyOp("_upsert_daily_action_manus_touched", url, FALSE, "",
                DailyManusResult(url), FALSE)

upsert_weekly_cycle_manus_touched ==
    \E url \in ManusUrls :
        WeeklyOp("_upsert_weekly_cycle_manus_touched", url, FALSE, "",
                 WeeklyManusResult(url), FALSE)

append_github_activity ==
    \E url \in GithubUrls, elsewhere \in BOOLEAN :
        DailyOp("append_github_activity", url, FALSE, "", GithubResult(url, elsewhere), TRUE)

remove_todoist_completed ==
    \E text \in Tasks, removedElsewhere \in BOOLEAN :
        DailyOp("remove_todoist_completed", text, FALSE, "",
                TodoistRemoveResult(text, removedElsewhere), TRUE)

\* Time passes to the next instant, between invocations; when the effective
\* day changes the writers resolve that day's Daily Action file, provisioned
\* or not.
Tick ==
    /\ pending = NoPending
    /\ now < Len(Instants)
    /\ now' = now + 1
    /\ IF EffectiveDayName(now + 1) # EffectiveDayName(now)
       THEN da' \in DailyFixtures /\ daPresent' \in BOOLEAN
       ELSE UNCHANGED <<da, daPresent>>
    /\ last' = Last("none", "", FALSE, "", NoCall, NoCall)
    /\ UNCHANGED <<wc, wcPresent, ops, pending, dateVars, logVars, raceVars, posVars>>

Next ==
    \/ upsert_daily_action_issue_touched
    \/ upsert_weekly_cycle_issue_touched
    \/ upsert_daily_action_update
    \/ upsert_weekly_cycle_update
    \/ append_todoist_completed
    \/ append_weekly_cycle_completed
    \/ upsert_daily_action_manus_touched
    \/ upsert_weekly_cycle_manus_touched
    \/ append_github_activity
    \/ remove_todoist_completed
    \/ Tick

Spec == Init /\ [][Next]_vars

\* A Weekly Cycle note that was written to earlier in the day: a completed
\* task, then an initiative update, in the Wednesday subsection.
WeeklyWithEntries ==
    WeeklyUpdateUpsert(
        WeeklyCompletedAppend(WeeklyTemplate, DayNames[Instants[1].dow + 1],
                              Stamp(1), "T1").text,
        DayNames[Instants[1].dow + 1], Stamp(1), "initiative", "U1", "s1").text

\* The writers at work on notes that already hold entries
InitLater ==
    /\ da \in DailyFixtures
    /\ daPresent = TRUE
    /\ wc = WeeklyWithEntries
    /\ wcPresent \in BOOLEAN
    /\ now = 1
    /\ ops = 0
    /\ last = Last("none", "", FALSE, "", NoCall, NoCall)
    /\ pending = NoPending
    /\ clock = [ord |-> 0, hour |-> 0]
    /\ calc = [op |-> "none", previous |-> FALSE,
               start |-> [ord |-> 0, hour |-> 0], end |-> [ord |-> 0, hour |-> 0]]
    /\ line = <<>>
    /\ seen = [pattern |-> "none", match |-> FALSE]
    /\ inv = <<>>
    /\ writeLog = <<>>
    /\ mainLines = <<>>
    /\ insertPos = NoPosition

SpecLater == InitLater /\ [][Next]_vars

-----------------------------------------------------------------------------
(* Entry points that write both notes: Daily Action first, then Weekly Cycle *)

\* Mutant: the exception of a write is not caught
Caught_Propagates(o) == o

\* try/except Exception around each write: the exception becomes the error
\* field of that note in the result and is not re-raised.
Caught(o) == [o EXCEPT !.raised = FALSE]

\* "# Write to Daily Action": the first try block
WrapDaily(p, r, raises) ==
    /\ pending = NoPending
    /\ ops < MaxOps
    /\ ops' = ops + 1
    /\ da' = Stored(da, r)
    /\ last' = Last(p.op, p.key, p.flag, p.body, Caught(Out(r, raises)), NoCall)
    /\ pending' = p
    /\ UNCHANGED <<daPresent, wc, wcPresent, now, dateVars, logVars, raceVars, posVars>>

\* "# Write to Weekly Cycle": the second try block, then return result
WrapWeekly(op, r, raises) ==
    /\ pending.op = op
    /\ wc' = Stored(wc, r)
    /\ last' = [last EXCEPT !.wc = Caught(Out(r, raises))]
    /\ pending' = NoPending
    /\ UNCHANGED <<da, daPresent, wcPresent, now, ops, dateVars, logVars, raceVars, posVars>>

upsert_issue_touched_daily ==
    \E id \in IssueIds, st \in Statuses, changed \in BOOLEAN :
        WrapDaily(Pending("upsert_issue_touched", id, changed, "", st, ""),
                  DailyIssueResult(id, st, changed), FALSE)

upsert_issue_touched_weekly ==
    WrapWeekly("upsert_issue_touched",
               WeeklyIssueResult(pending.key, pending.st, pending.flag), FALSE)

upsert_linear_update_daily ==
    \E sectionType \in SectionTypes, url \in Urls, b \in Bodies :
        WrapDaily(Pending("upsert_linear_update", url, FALSE, b, "", sectionType),
                  DailyUpdateResult(sectionType, url, b), FALSE)

upsert_linear_update_weekly ==
    WrapWeekly("upsert_linear_update",
               WeeklyUpdateResult(pending.sectionType, pending.key, pending.body), FALSE)

upsert_manus_task_touched_daily ==
    \E url \in ManusUrls :
        WrapDaily(Pending("upsert_manus_task_touched", url, FALSE, "", "", ""),
                  DailyManusResult(url), FALSE)

upsert_manus_task_touched_weekly ==
    WrapWeekly("upsert_manus_task_touched", WeeklyManusResult(pending.key), FALSE)

\* def append_weekly_cycle_completed(task_content: str): positional parameters
WeeklyCompletedParams == 1

\* A call of append_weekly_cycle_completed with nargs positional arguments:
\* Python binds the arguments before the body runs and raises TypeError when
\* there are more of them than parameters.
WeeklyCompletedCall(nargs, text) ==
    IF nargs > WeeklyCompletedParams THEN Res(FALSE, "none", FALSE, wc, "TypeError")
    ELSE WeeklyCompletedResult(text)

append_completed_task_daily ==
    \E text \in Tasks :
        WrapDaily(Pending("append_completed_task", text, FALSE, "", "", ""),
                  TodoistResult(text), TRUE)

\* append_weekly_cycle_completed(task_content, target_dt): two arguments
append_completed_task_weekly ==
    WrapWeekly("append_completed_task", WeeklyCompletedCall(2, pending.key), TRUE)

NextWrap ==
    \/ upsert_issue_touched_daily
    \/ upsert_issue_touched_weekly
    \/ upsert_linear_update_daily
    \/ upsert_linear_update_weekly
    \/ upsert_manus_task_touched_daily
    \/ upsert_manus_task_touched_weekly
    \/ append_completed_task_daily
    \/ append_completed_task_weekly
    \/ Tick

SpecWrap == Init /\ [][NextWrap]_vars

-----------------------------------------------------------------------------
(* Dates: effective date and cycle bounds *)

\* A datetime by its day number and hour; day 0 is a Monday
DateTime(ord, hour) == [ord |-> ord, hour |-> hour]

\* datetime.weekday(): Monday = 0
Weekday(t) == t.ord % 7

\* t - timedelta(days = n): the time of day is kept
MinusDays(t, n) == DateTime(t.ord - n, t.hour)
\* t + timedelta(days = n)
PlusDays(t, n) == DateTime(t.ord + n, t.hour)

\* Mutant: 03:00 still counts as the previous day
GetEffectiveDate_Inclusive(t) ==
    IF t.hour <= DAY_ROLLOVER_HOUR THEN MinusDays(t, 1) ELSE t

\* get_effective_date
GetEffectiveDate(t) ==
    IF t.hour < DAY_ROLLOVER_HOUR THEN MinusDays(t, 1) ELSE t

\* Mutant: the cycle is counted from Thursday
DaysSinceWednesday_FromThursday(t) == (Weekday(t) - 3) % 7

\* days_since_wednesday = (weekday() - 2) % 7
DaysSinceWednesday(t) == (Weekday(t) - 2) % 7

Bounds(start, end) == [start |-> start, end |-> end]

\* _get_current_week_bounds of the issues, updates and Manus writers
GetCurrentWeekBounds(t) ==
    LET effective_now == GetEffectiveDate(t)
        cycle_start == MinusDays(effective_now, DaysSinceWednesday(effective_now))
    IN  Bounds(cycle_start, PlusDays(cycle_start, 6))

\* _get_current_week_bounds of add_weekly_cycle_completed: from now itself
GetCurrentWeekBoundsCompleted(t) ==
    LET cycle_start == MinusDays(t, DaysSinceWednesday(t))
    IN  Bounds(cycle_start, PlusDays(cycle_start, 6))

\* get_cycle_bounds(cycle_type, tz) of generate_cycle_summary_data
GetCycleBoundsByType(t, cycle_type) ==
    LET effective_now == GetEffectiveDate(t)
        d == DaysSinceWednesday(effective_now)
        cycle_start == IF cycle_type = "previous" THEN MinusDays(effective_now, d + 7)
                       ELSE MinusDays(effective_now, d)
    IN  Bounds(cycle_start, PlusDays(cycle_start, 6))

\* get_cycle_bounds(tz, previous): start at 00:00:00, end at 23:59:59
GetCycleBounds(t, previous) ==
    LET effective_now == GetEffectiveDate(t)
        cs == MinusDays(effective_now, DaysSinceWednesday(effective_now))
        ce == PlusDays(cs, 6)
        cycle_start == IF previous THEN MinusDays(cs, 7) ELSE cs
        cycle_end == IF previous THEN MinusDays(ce, 7) ELSE ce
    IN  Bounds(DateTime(cycle_start.ord, 0), DateTime(cycle_end.ord, 23))

Calc(op, previous, start, end) ==
    [op |-> op, previous |-> previous, start |-> start, end |-> end]
NoCalc == Calc("none", FALSE, DateTime(0, 0), DateTime(0, 0))

DateTimes == {DateTime(ord, hour) : ord \in 0 .. (MaxDays - 1), hour \in 0 .. 23}

InitDates ==
    /\ clock \in DateTimes
    /\ calc = NoCalc
    /\ line = <<>>
    /\ seen = [pattern |-> "none", match |-> FALSE]
    /\ inv = <<>>
    /\ writeLog = <<>>
    /\ da = DailyTemplate
    /\ daPresent = TRUE
    /\ wc = WeeklyTemplate
    /\ wcPresent = TRUE
    /\ now = 1
    /\ ops = 0
    /\ last = Last("none", "", FALSE, "", NoCall, NoCall)
    /\ pending = NoPending
    /\ mainLines = <<>>
    /\ insertPos = NoPosition

DateOp(op, previous, b) ==
    /\ calc' = Calc(op, previous, b.start, b.end)
    /\ UNCHANGED <<clock, noteVars, logVars, raceVars, posVars>>

get_effective_date ==
    DateOp("get_effective_date", FALSE,
           Bounds(GetEffectiveDate(clock), GetEffectiveDate(clock)))

get_current_week_bounds ==
    DateOp("_get_current_week_bounds", FALSE, GetCurrentWeekBounds(clock))

get_current_week_bounds_completed ==
    DateOp("_get_current_week_bounds_completed", FALSE, GetCurrentWeekBoundsCompleted(clock))

get_cycle_bounds_by_type ==
    \E cycle_type \in {"current", "previous"} :
        DateOp("get_cycle_bounds_by_type", cycle_type = "previous",
               GetCycleBoundsByType(clock, cycle_type))

get_cycle_bounds ==
    \E previous \in BOOLEAN :
        DateOp("get_cycle_bounds", previous, GetCycleBounds(clock, previous))

NextDates ==
    \/ get_effective_date
    \/ get_current_week_bounds
    \/ get_current_week_bounds_completed
    \/ get_cycle_bounds_by_type
    \/ get_cycle_bounds

SpecDates == InitDates /\ [][NextDates]_vars

-----------------------------------------------------------------------------
(* Log-entry recognisers on the characters of a line *)

\* \d
IsDigit(c) == c \in {"0", "1", "4", "5", "9"}
\* \s
IsSpace(c) == c = " "

\* ^\[\d{2}:\d{2}
TimePrefix(s) ==
    /\ Len(s) >= 6
    /\ s[1] = "[" /\ IsDigit(s[2]) /\ IsDigit(s[3])
    /\ s[4] = ":" /\ IsDigit(s[5]) /\ IsDigit(s[6])

\* LOG_ENTRY_PATTERN of add_daily_action_updates: ^\[\d{2}:\d{2}\]
DailyUpdatesLogEntry(s) == TimePrefix(s) /\ Len(s) >= 7 /\ s[7] = "]"

\* LOG_ENTRY_PATTERN of add_weekly_cycle_updates: ^\[\d{2}:\d{2}\]
WeeklyUpdatesLogEntry(s) == TimePrefix(s) /\ Len(s) >= 7 /\ s[7] = "]"

\* LOG_ENTRY_PATTERN of add_todoist_completed: ^\[\d{2}:\d{2}
TodoistLogEntry(s) == TimePrefix(s)

\* LOG_ENTRY_PATTERN of add_weekly_cycle_completed: ^\[\d{2}:\d{2}
WeeklyCompletedLogEntry(s) == TimePrefix(s)

\* The first position >= i of s that holds no whitespace (Len(s) + 1 if none)
SkipSpaces(s, i) ==
    LET rest == {j \in i .. Len(s) : ~IsSpace(s[j])}
    IN  IF rest = {} THEN Len(s) + 1 ELSE SetMin(rest)

\* LOG_ENTRY_PATTERN of dedup_helpers:
\* ^\[\d{2}:\d{2}\s*(?:AM|PM)?\]\s*(.+)$
DedupLogEntry(s) ==
    /\ TimePrefix(s)
    /\ LET a == SkipSpaces(s, 7)
           b == IF a + 1 <= Len(s) /\ s[a] \in {"A", "P"} /\ s[a + 1] = "M"
                THEN a + 2 ELSE a
       IN  /\ b <= Len(s)
           /\ s[b] = "]"
           /\ Len(s) > b

\* Lines as the writers produce them and lines that are no log entries
Hours == {<<"1", "4">>, <<"0", "9">>}
Meridiems == {<<>>, <<" ", "A", "M">>, <<" ", "P", "M">>}
Texts == {<<" ", "T">>, <<" ", "T", " ", "T">>, <<" ", "[", "T", "]">>}

\* '[HH:MM] text', '[HH:MM AM] text' and '[HH:MM PM] text'
StampedLine(h, m, t) == <<"[">> \o h \o <<":", "0", "5">> \o m \o <<"]">> \o t
StampedLines == {StampedLine(h, m, t) : h \in Hours, m \in Meridiems, t \in Texts}

OtherLines ==
    {<<>>, <<"T">>, <<"-", " ", "T">>, <<"#", " ", "T">>,
     <<"[", "T", "]">>, <<"[", "9", ":", "0", "5", "]", " ", "T">>,
     <<" ", "[", "1", "4", ":", "0", "5", "]", " ", "T">>}

InitLog ==
    /\ line \in StampedLines \cup OtherLines
    /\ seen = [pattern |-> "none", match |-> FALSE]
    /\ inv = <<>>
    /\ writeLog = <<>>
    /\ clock = DateTime(0, 0)
    /\ calc = NoCalc
    /\ da = DailyTemplate
    /\ daPresent = TRUE
    /\ wc = WeeklyTemplate
    /\ wcPresent = TRUE
    /\ now = 1
    /\ ops = 0
    /\ last = Last("none", "", FALSE, "", NoCall, NoCall)
    /\ pending = NoPending
    /\ mainLines = <<>>
    /\ insertPos = NoPosition

Recognise(pattern, m) ==
    /\ seen' = [pattern |-> pattern, match |-> m]
    /\ UNCHANGED <<line, noteVars, dateVars, raceVars, posVars>>

match_daily_updates == Recognise("add_daily_action_updates", DailyUpdatesLogEntry(line))

match_weekly_updates == Recognise("add_weekly_cycle_updates", WeeklyUpdatesLogEntry(line))

match_todoist_completed == Recognise("add_todoist_completed", TodoistLogEntry(line))

match_weekly_completed == Recognise("add_weekly_cycle_completed", WeeklyCompletedLogEntry(line))

match_dedup == Recognise("dedup_helpers", DedupLogEntry(line))

NextLog ==
    \/ match_daily_updates
    \/ match_weekly_updates
    \/ match_todoist_completed
    \/ match_weekly_completed
    \/ match_dedup

SpecLog == InitLog /\ [][NextLog]_vars

-----------------------------------------------------------------------------
(* Overlapping invocations on the Daily Action note *)

\* An invocation between its files_download and its files_upload
Invocation(pc, op, key, flag, body, buf) ==
    [pc |-> pc, op |-> op, key |-> key, flag |-> flag, body |-> body, buf |-> buf]
Idle == Invocation("idle", "none", "", FALSE, "", <<>>)

Invocations == 1 .. MaxInvocations

InitRace ==
    /\ da \in {DailyTemplate, DailyTemplateNoYaml}
    /\ daPresent = TRUE
    /\ wc = WeeklyTemplate
    /\ wcPresent = TRUE
    /\ now = 1
    /\ ops = 0
    /\ last = Last("none", "", FALSE, "", NoCall, NoCall)
    /\ pending = NoPending
    /\ clock = DateTime(0, 0)
    /\ calc = NoCalc
    /\ line = <<>>
    /\ seen = [pattern |-> "none", match |-> FALSE]
    /\ inv = [p \in Invocations |-> Idle]
    /\ writeLog = <<>>
    /\ mainLines = <<>>
    /\ insertPos = NoPosition

\* file_content = _get_daily_action_content(dbx, file_path)
Download(p, op, key, flag, body) ==
    /\ inv[p].pc = "idle"
    /\ inv' = [inv EXCEPT ![p] = Invocation("read", op, key, flag, body, da)]
    /\ UNCHANGED <<writeLog, noteVars, dateVars, logVars, posVars>>

download_issue_touched(p) ==
    \E id \in IssueIds, st \in Statuses, changed \in BOOLEAN :
        Download(p, "upsert_daily_action_issue_touched", id, changed, st)

download_manus_touched(p) ==
    \E url \in ManusUrls :
        Download(p, "_upsert_daily_action_manus_touched", url, FALSE, "")

\* Mutant: the text is computed from the store at the time of the upload
Computed_FromStore(i) ==
    IF i.op = "upsert_daily_action_issue_touched"
    THEN DailyIssueUpsert(da, i.key, i.body, i.flag)
    ELSE DailyManusUpsert(da, i.key)

\* What the invocation computes from the text it has read
Computed(i) ==
    IF i.op = "upsert_daily_action_issue_touched"
    THEN DailyIssueUpsert(i.buf, i.key, i.body, i.flag)
    ELSE DailyManusUpsert(i.buf, i.key)

\* dbx.files_upload(updated_content, file_path, mode = overwrite), or the
\* return of 'skipped' without an upload
Upload(p) ==
    /\ inv[p].pc = "read"
    /\ LET r == Computed(inv[p])
       IN  /\ da' = Stored(da, r)
           /\ writeLog' = IF r.wrote THEN Append(writeLog, p) ELSE writeLog
           /\ last' = Last(inv[p].op, inv[p].key, inv[p].flag, inv[p].body,
                           Out(r, FALSE), NoCall)
    /\ inv' = [inv EXCEPT ![p].pc = "done"]
    /\ UNCHANGED <<daPresent, wc, wcPresent, now, ops, pending, dateVars, logVars, posVars>>

NextRace ==
    \/ \E p \in Invocations : download_issue_touched(p)
    \/ \E p \in Invocations : download_manus_touched(p)
    \/ \E p \in Invocations : Upload(p)

SpecRace == InitRace /\ [][NextRace]_vars

-----------------------------------------------------------------------------
(* _find_issues_touched_insert_position on its own *)

\* Lines that can stand between Daily Review and the template boundary
RangeLines ==
    {Blank, TaskLine("14:05", "T1"), L("upd", "U1", "14:05", "s1"),
     INITIATIVE_UPDATES_HEADER, PROJECT_UPDATES_HEADER, TODOIST_COMPLETED_HEADER}

\* Each tracked header occurs at most once
HeadersOnce(m) ==
    \A i, j \in 1 .. Len(m) : (i # j /\ m[i].k = "hdr") => m[i] # m[j]

Ranges ==
    {m \in UNION {[1 .. n -> RangeLines] : n \in 0 .. MaxRangeLines} : HeadersOnce(m)}

\* main_content.split('\n') of a note: Daily Review or none, the managed
\* range, the template or none.
PositionInputs ==
    {pre \o m \o post :
        pre \in {<<>>, <<DailyReviewLine, Text("Had a good day"), Sep>>},
        m \in Ranges,
        post \in {<<>>, <<TEMPLATE_BOUNDARY, Text("Vision Objective 1 content here")>>}}

InitPosition ==
    /\ mainLines \in PositionInputs
    /\ insertPos = NoPosition
    /\ da = DailyTemplate
    /\ daPresent = TRUE
    /\ wc = WeeklyTemplate
    /\ wcPresent = TRUE
    /\ now = 1
    /\ ops = 0
    /\ last = Last("none", "", FALSE, "", NoCall, NoCall)
    /\ pending = NoPending
    /\ clock = DateTime(0, 0)
    /\ calc = NoCalc
    /\ line = <<>>
    /\ seen = [pattern |-> "none", match |-> FALSE]
    /\ inv = <<>>
    /\ writeLog = <<>>

\* The call made by upsert_daily_action_issue_touched when the section is
\* absent: daily_review_end_line is 0 without a Daily Review.
find_issues_touched_insert_position ==
    /\ ~insertPos.called
    /\ insertPos' = Position(FindIssuesTouchedInsertPosition(
                                 mainLines, DailyReviewEndOrZero(mainLines)),
                             DailyReviewEndOrZero(mainLines))
    /\ UNCHANGED <<mainLines, noteVars, dateVars, logVars, raceVars>>

NextPosition == find_issues_touched_insert_position

SpecPosition == InitPosition /\ [][NextPosition]_vars

-----------------------------------------------------------------------------
(* Reading a document, independently of the writers *)

\* Indices of the lines of the section opened by the first line equal to
\* header inside [from, to): from the header up to the next line that
\* starts a header, is '---' or is the template boundary.
SectionBody(lines, from, to, header) ==
    LET hs == {i \in from .. (to - 1) : At(lines, i) = header}
    IN  IF hs = {} THEN {}
        ELSE {i \in (SetMin(hs) + 1) .. (to - 1) :
                 \A j \in (SetMin(hs) + 1) .. i :
                     ~StartsHash(At(lines, j)) /\ ~IsSep(At(lines, j))
                     /\ At(lines, j) # TEMPLATE_BOUNDARY}

\* The weekday subsection: the lines after '### <day> -' up to the next '---'
DayRange(lines, day) ==
    LET hs == {i \in Idx(lines) : At(lines, i) = DayHdr(day)}
    IN  IF hs = {} THEN {}
        ELSE {i \in (SetMin(hs) + 1) .. (Len(lines) - 1) :
                 \A j \in (SetMin(hs) + 1) .. i : ~IsSep(At(lines, j))}

\* Lines of the Daily Action Issues Touched section that start with id
DailyIssueLines(F, id) ==
    {i \in SectionBody(F, 0, Len(F), ISSUES_TOUCHED_HEADER) : MatchesIdentifier(At(F, i), id)}

\* Lines of the weekday's Issues Touched section that start with id
WeeklyIssueLines(F, day, id) ==
    LET dr == DayRange(F, day)
    IN  IF dr = {} THEN {}
        ELSE {i \in SectionBody(F, SetMin(dr), SetMax(dr) + 1, WC_ISSUES_TOUCHED_HEADER) :
                 MatchesIdentifier(At(F, i), id)}

-----------------------------------------------------------------------------
(* Claims *)

\* C1: after every successful upsert_daily_action_issue_touched, and after
\* every successful upsert_weekly_cycle_issue_touched, the Issues Touched
\* section of the note (of the resolved weekday subsection) holds exactly one
\* line that starts with the upserted identifier.
C1_SingleIssueLine ==
    /\ (last.op = "upsert_daily_action_issue_touched" /\ last.da.ok)
          => Cardinality(DailyIssueLines(da, last.key)) = 1
    /\ (last.op = "upsert_weekly_cycle_issue_touched" /\ last.wc.ok)
          => Cardinality(WeeklyIssueLines(wc, EffectiveDayName(now), last.key)) = 1

\* Witness of C1: a second upsert of the same identifier replaced its line
C1_Witness ==
    /\ last.op = "upsert_weekly_cycle_issue_touched"
    /\ last.wc.action = "updated"
    /\ Cardinality(WeeklyIssueLines(wc, EffectiveDayName(now), last.key)) = 1

\* C2: once a line for K exists in the target Issues Touched section, an
\* upsert of K with status_changed = False returns 'skipped', writes nothing
\* and leaves the stored document as it was, for both writers.
C2_SkipIsNoOp ==
    [][/\ (/\ last'.op = "upsert_daily_action_issue_touched"
           /\ ~last'.flag
           /\ DailyIssueLines(da, last'.key) # {})
          => (last'.da.action = "skipped" /\ last'.da.writes = 0 /\ da' = da)
       /\ (/\ last'.op = "upsert_weekly_cycle_issue_touched"
           /\ ~last'.flag
           /\ WeeklyIssueLines(wc, EffectiveDayName(now), last'.key) # {})
          => (last'.wc.action = "skipped" /\ last'.wc.writes = 0 /\ wc' = wc)]_vars

\* Witness of C2: an unchanged upsert of an identifier already in the section
C2_Witness ==
    /\ last.op = "upsert_daily_action_issue_touched"
    /\ ~last.flag
    /\ last.da.action = "skipped"
    /\ DailyIssueLines(da, last.key) # {}

\* The canonical section lists of the two notes
DailyCanonicalOrder ==
    <<INITIATIVE_UPDATES_HEADER, PROJECT_UPDATES_HEADER, TODOIST_COMPLETED_HEADER,
      ISSUES_TOUCHED_HEADER, DAILY_ACTION_HEADER, GITHUB_ACTIVITY_HEADER>>
WeeklyCanonicalOrder ==
    <<WC_INITIATIVE_UPDATES_HEADER, WC_PROJECT_UPDATES_HEADER, WC_COMPLETED_TASKS_HEADER,
      WC_ISSUES_TOUCHED_HEADER, WEEKLY_CYCLE_HEADER>>

\* The headers of `order` found at the indices S of lines follow `order`
HeadersInOrder(lines, S, order) ==
    \A i, j \in S :
        (/\ i < j
         /\ OrderIndex(order, At(lines, i)) > 0
         /\ OrderIndex(order, At(lines, j)) > 0)
        => OrderIndex(order, At(lines, i)) <= OrderIndex(order, At(lines, j))

DailyHeadersInOrder == HeadersInOrder(da, Idx(da), DailyCanonicalOrder)
WeeklyHeadersInOrder ==
    \A d \in {"Wednesday", "Thursday"} :
        HeadersInOrder(wc, DayRange(wc, d), WeeklyCanonicalOrder)

\* C3: starting from notes without tracked sections, whatever sections the
\* writers create and in whatever call order, the tracked headers of the
\* Daily Action note, and those of each weekday subsection of the Weekly
\* Cycle note, appear in the canonical order.
C3_CanonicalOrder == DailyHeadersInOrder /\ WeeklyHeadersInOrder

\* The text up to and including the closing '---' of Daily Review
ThroughDailyReview(F) ==
    LET drs == {i \in Idx(F) : ContainsDailyReview(At(F, i))}
        seps == {i \in Idx(F) : drs # {} /\ i >= SetMin(drs) /\ IsSep(At(F, i))}
    IN  IF seps = {} THEN <<>> ELSE Slice(F, 0, SetMin(seps) + 1)

\* The text from the template-boundary line to the end of the file
FromTemplateBoundary(F) ==
    LET tbs == {i \in Idx(F) : At(F, i) = TEMPLATE_BOUNDARY}
    IN  IF tbs = {} THEN <<>> ELSE Slice(F, SetMin(tbs), Len(F))

\* C4: a call of a Daily Action writer leaves the text up to and including
\* the closing '---' of Daily Review, and the text from the template-boundary
\* line to the end of the file, as they were.
C4_BoundaryPreserved ==
    [][last'.da.called =>
          /\ ThroughDailyReview(da') = ThroughDailyReview(da)
          /\ FromTemplateBoundary(da') = FromTemplateBoundary(da)]_vars

\* The day-subsection headers and '---' separators, in document order
Skeleton(F) == SelectSeq(F, LAMBDA l : l.k = "day" \/ IsSep(l))

\* The lines of the subsection of day d
DayLines(F, d) ==
    LET dr == DayRange(F, d)
    IN  IF dr = {} THEN <<>> ELSE Slice(F, SetMin(dr), SetMax(dr) + 1)

\* The weekday the writer op resolves at instant n
ResolvedDay(op, n) ==
    IF op = "append_weekly_cycle_completed" THEN RawDayName(n) ELSE EffectiveDayName(n)

\* C5: a call of a Weekly Cycle writer, with any url the webhook passes (the
\* empty string included), changes no '### <Weekday> -' header line, no '---'
\* separator and no line of a weekday subsection other than the resolved one.
C5_WeeklyFrame ==
    [][last'.wc.called =>
          /\ Skeleton(wc') = Skeleton(wc)
          /\ \A d \in {"Wednesday", "Thursday"} \ {ResolvedDay(last'.op, now)} :
                DayLines(wc', d) = DayLines(wc, d)]_vars

\* Indices in S of the header lines of the entries of url u
EntryHeads(lines, S, u) ==
    {i \in S : At(lines, i).k = "upd" /\ At(lines, i).a = u}

\* Body lines among the indices S that do not continue an entry: the nearest
\* line above that is not a body line is not the header line of an entry.
StrayBodyLines(lines, S) ==
    {j \in S :
        /\ At(lines, j).k = "body"
        /\ LET above == {q \in 0 .. (j - 1) : At(lines, q).k # "body"}
           IN  above = {} \/ At(lines, SetMax(above)).k # "upd"}

\* Among the indices S there is one entry of url u: its header line followed
\* by the lines of body b and by no further body line, and no body line is
\* left outside an entry.
OneEntry(lines, S, u, b) ==
    /\ Cardinality(EntryHeads(lines, S, u)) = 1
    /\ LET i == CHOOSE x \in EntryHeads(lines, S, u) : TRUE
           e == FormatUpdateEntry(At(lines, i).b, u, b)
       IN  /\ i + Len(e) <= Len(lines)
           /\ Slice(lines, i, i + Len(e)) = e
           /\ (i + Len(e) < Len(lines) => At(lines, i + Len(e)).k # "body")
    /\ StrayBodyLines(lines, S) = {}

\* C6: after update calls with the same (non-empty) url and any bodies
\* (one line, bullets, multi-line markdown) the note, resp. the weekday
\* subsection, holds exactly one entry of that url: one header line with the
\* url followed only by the lines of the most recent body, and no line of an
\* earlier body is left behind.
C6_OneEntryPerUrl ==
    [][/\ (/\ last'.op = "upsert_daily_action_update"
           /\ last'.da.ok
           /\ last'.key # ""
           /\ EntryHeads(da, Idx(da), last'.key) # {}
           /\ StrayBodyLines(da, Idx(da)) = {})
          => OneEntry(da', Idx(da'), last'.key, last'.body)
       /\ (/\ last'.op = "upsert_weekly_cycle_update"
           /\ last'.wc.ok
           /\ last'.key # ""
           /\ EntryHeads(wc, DayRange(wc, EffectiveDayName(now)), last'.key) # {}
           /\ StrayBodyLines(wc, DayRange(wc, EffectiveDayName(now))) = {})
          => OneEntry(wc', DayRange(wc', EffectiveDayName(now)), last'.key, last'.body)]_vars

\* C7: an invocation writes each document at most once, a document changes
\* only by that write, and a failed invocation (success = False, or an
\* exception) leaves the document's stored text as it was.
C7_FailureLeavesStore ==
    [][/\ last'.da.called =>
             /\ last'.da.writes <= 1
             /\ (da' # da => last'.da.writes = 1)
             /\ (~last'.da.ok => (last'.da.writes = 0 /\ da' = da))
       /\ last'.wc.called =>
             /\ last'.wc.writes <= 1
             /\ (wc' # wc => last'.wc.writes = 1)
             /\ (~last'.wc.ok => (last'.wc.writes = 0 /\ wc' = wc))]_vars

\* Witness of C7: a writer failed on a missing day section, note untouched
C7_Witness ==
    /\ last.op = "upsert_weekly_cycle_update"
    /\ last.wc.called /\ ~last.wc.ok
    /\ last.wc.err = "day_section_missing"
    /\ last.wc.writes = 0

\* The Weekly Cycle note F has a line equal to '### <day> -'
HasDaySection(F, day) == \E i \in Idx(F) : At(F, i) = DayHdr(day)

WeeklyWriters ==
    {"upsert_weekly_cycle_issue_touched", "upsert_weekly_cycle_update",
     "_upsert_weekly_cycle_manus_touched", "append_weekly_cycle_completed"}

\* C8: when the Weekly Cycle note has no '### <Weekday> -' line for the
\* resolved weekday, each weekly writer (issues touched, updates, Manus,
\* completed tasks) fails with the error that names the missing day section,
\* writes nothing and leaves the note as it was.
C8_MissingDaySection ==
    [][(/\ last'.op \in WeeklyWriters
        /\ wcPresent
        /\ ~HasDaySection(wc, ResolvedDay(last'.op, now)))
       => (/\ ~last'.wc.ok
           /\ last'.wc.err = "day_section_missing"
           /\ last'.wc.writes = 0
           /\ wc' = wc)]_vars

\* Witness of C8: the completed-task writer found no Friday subsection
C8_Witness ==
    /\ last.op = "append_weekly_cycle_completed"
    /\ wcPresent
    /\ ~HasDaySection(wc, RawDayName(now))
    /\ last.wc.err = "day_section_missing"
    /\ last.wc.raised

Wrappers ==
    {"upsert_issue_touched", "upsert_linear_update", "upsert_manus_task_touched",
     "append_completed_task"}

\* C9: each of upsert_issue_touched, upsert_linear_update,
\* upsert_manus_task_touched and append_completed_task attempts the Daily
\* Action write first and the Weekly Cycle write after it whatever the first
\* outcome was, reports each outcome in its own field, and never raises.
C9_BothAttempted ==
    last.op \in Wrappers =>
        /\ last.da.called
        /\ ~last.da.raised /\ ~last.wc.raised
        /\ (pending # NoPending => ~last.wc.called)
        /\ (pending = NoPending => last.wc.called)
        /\ (~last.da.ok => (last.da.err # "" /\ last.da.writes = 0))
        /\ ((last.wc.called /\ ~last.wc.ok) => last.wc.err # "")

\* Witness of C9: the Daily Action write failed and the Weekly Cycle write
\* was made all the same
C9_Witness ==
    /\ last.op = "upsert_issue_touched"
    /\ pending = NoPending
    /\ ~last.da.ok /\ last.da.err = "not_found"
    /\ last.wc.ok /\ last.wc.action = "inserted"

\* A completed-task line with the text is in the document
HasTask(F, text) ==
    \E i \in Idx(F) : At(F, i).k = "task" /\ Strip(At(F, i).a) = Strip(text)

\* C10: when the Daily Action note of the day and the Weekly Cycle note with
\* the weekday's subsection exist, append_completed_task appends the task to
\* both and returns daily_action_success = True and weekly_cycle_success = True.
C10_BothAppended ==
    (/\ last.op = "append_completed_task"
     /\ pending = NoPending
     /\ daPresent /\ wcPresent
     /\ HasDaySection(wc, RawDayName(now))
     /\ HasDaySection(wc, EffectiveDayName(now)))
    => (/\ last.da.ok /\ last.wc.ok
        /\ HasTask(da, last.key)
        /\ HasTask(wc, last.key))

\* Entries of the Completed Tasks on Todoist section whose text, stripped, is t
TodoistEntries(F, t) ==
    {i \in SectionBody(F, 0, Len(F), TODOIST_COMPLETED_HEADER) :
        At(F, i).k = "task" /\ Strip(At(F, i).a) = t}

\* C11: append_todoist_completed is idempotent per stripped task text: a call
\* whose text already has an entry in the section of the note writes nothing,
\* whatever its timestamp, and after every call that returns the section
\* holds exactly one entry of that text.
C11_TodoistIdempotent ==
    [][(last'.op = "append_todoist_completed" /\ last'.da.ok) =>
          /\ Cardinality(TodoistEntries(da', Strip(last'.key))) = 1
          /\ TodoistEntries(da, Strip(last'.key)) # {}
                => (last'.da.writes = 0 /\ da' = da)]_vars

\* Witness of C11: the padded text arrives at a later instant than the entry
\* it duplicates and is skipped
C11_Witness ==
    /\ last.op = "append_todoist_completed"
    /\ last.key = " T1 "
    /\ last.da.action = "skipped"
    /\ \E i \in TodoistEntries(da, "T1") : At(da, i).a = "T1" /\ At(da, i).b # Stamp(now)

\* C12: when the identifier has a line in the target Issues Touched section
\* and status_changed = True, the writer returns 'updated' and the document
\* it stores is the one it read with exactly that line replaced, at the same
\* index, by the newly rendered line: same number of lines, every other line
\* as it was.
C12_UpdateInPlace ==
    [][/\ (/\ last'.op = "upsert_daily_action_issue_touched"
           /\ last'.flag
           /\ DailyIssueLines(da, last'.key) # {})
          => (/\ last'.da.action = "updated"
              /\ \E i \in DailyIssueLines(da, last'.key) :
                    da' = [da EXCEPT ![i + 1] = FormatIssueEntry(last'.key, last'.body)])
       /\ (/\ last'.op = "upsert_weekly_cycle_issue_touched"
           /\ last'.flag
           /\ WeeklyIssueLines(wc, EffectiveDayName(now), last'.key) # {})
          => (/\ last'.wc.action = "updated"
              /\ \E i \in WeeklyIssueLines(wc, EffectiveDayName(now), last'.key) :
                    wc' = [wc EXCEPT ![i + 1] = FormatIssueEntry(last'.key, last'.body)])]_vars

-----------------------------------------------------------------------------
(* Claims about dates *)

\* C13: get_effective_date(now) is the previous calendar day at the same
\* time of day when now's hour is 0, 1 or 2, and now itself for every hour
\* from 3 to 23.
C13_EffectiveDate ==
    calc.op = "get_effective_date" =>
        /\ clock.hour \in 0 .. 2 => calc.start = [ord |-> clock.ord - 1, hour |-> clock.hour]
        /\ clock.hour \in 3 .. 23 => calc.start = clock

\* 03:00 has been mapped (to the same day) and so has 02:00 (to the day before)
C13_Witness ==
    /\ calc.op = "get_effective_date"
    /\ clock.hour = 3
    /\ calc.start.ord = clock.ord
    /\ clock.ord > 0

\* a <= b on datetimes
NotAfter(a, b) == a.ord < b.ord \/ (a.ord = b.ord /\ a.hour <= b.hour)

\* The day of the Wednesday on or before day number d, found by search
WednesdayOnOrBefore(d) == CHOOSE w \in (d - 6) .. d : w % 7 = 2

\* The calendar day on which now's effective date falls
EffectiveDay(t) == IF t.hour \in 0 .. 2 THEN t.ord - 1 ELSE t.ord

BoundsFromEffectiveDate ==
    {"_get_current_week_bounds", "get_cycle_bounds_by_type", "get_cycle_bounds"}

\* C14: the cycle bounds computed from the effective date start on a
\* Wednesday and end six days later on a Tuesday; the current cycle contains
\* the effective date, and the previous cycle is the current one moved back
\* by exactly seven days.
C14_CycleBounds ==
    calc.op \in BoundsFromEffectiveDate =>
        LET eff == [ord |-> EffectiveDay(clock), hour |-> clock.hour]
            cur == WednesdayOnOrBefore(EffectiveDay(clock))
        IN  /\ calc.start.ord % 7 = 2
            /\ calc.end.ord = calc.start.ord + 6
            /\ calc.end.ord % 7 = 1
            /\ ~calc.previous =>
                  /\ NotAfter(calc.start, eff)
                  /\ NotAfter(eff, calc.end)
                  /\ calc.start.ord = cur
            /\ calc.previous =>
                  /\ calc.start.ord = cur - 7
                  /\ calc.end.ord = cur + 6 - 7

\* A previous cycle computed at 01:30-like hours of a Wednesday: the effective
\* date is the Tuesday that ends the cycle before
C14_Witness ==
    /\ calc.op = "get_cycle_bounds"
    /\ calc.previous
    /\ clock.ord % 7 = 2
    /\ clock.hour = 1
    /\ calc.end.ord = clock.ord - 8

-----------------------------------------------------------------------------
(* Claims about the notes, continued *)

\* Any line at all that starts with id among the lines of the subsection of day
DayIdLines(F, day, id) == {i \in DayRange(F, day) : MatchesIdentifier(At(F, i), id)}

\* C15: a successful upsert_weekly_cycle_issue_touched leaves every line of
\* the other weekday subsections as it was; when the resolved weekday's
\* subsection holds no line of the identifier the call inserts, whatever the
\* other subsections hold, and the new entry lies inside the resolved
\* weekday's subsection.
C15_ScopedToDay ==
    [][(last'.op = "upsert_weekly_cycle_issue_touched" /\ last'.wc.ok) =>
          LET day == EffectiveDayName(now)
          IN  /\ \A d \in {"Wednesday", "Thursday"} \ {day} : DayLines(wc', d) = DayLines(wc, d)
              /\ DayIdLines(wc, day, last'.key) = {} =>
                    /\ last'.wc.action = "inserted"
                    /\ \E i \in DayRange(wc', day) :
                          /\ At(wc', i) = FormatIssueEntry(last'.key, last'.body)
                          /\ DayIdLines(wc', day, last'.key) = {i}]_vars

\* Thursday's call has inserted GD-100 (Done) while Wednesday keeps GD-100 (Todo)
C15_Witness ==
    /\ last.op = "upsert_weekly_cycle_issue_touched"
    /\ last.wc.action = "inserted"
    /\ EffectiveDayName(now) = "Thursday"
    /\ last.key = "GD-100"
    /\ \E i \in DayRange(wc, "Wednesday") : At(wc, i) = FormatIssueEntry("GD-100", "Todo")
    /\ \E i \in DayRange(wc, "Thursday") : At(wc, i) = FormatIssueEntry("GD-100", "Done")

HasLine(F, l) == \E i \in Idx(F) : At(F, i) = l

DailyTrackedHeaders ==
    {INITIATIVE_UPDATES_HEADER, PROJECT_UPDATES_HEADER, TODOIST_COMPLETED_HEADER,
     ISSUES_TOUCHED_HEADER, DAILY_ACTION_HEADER, GITHUB_ACTIVITY_HEADER}

WeeklyTrackedHeaders == {l \in {At(wc, i) : i \in Idx(wc)} : l.k = "hdr"}

\* C16: a tracked section header that is present in a note is still present
\* after any operation of the engine on that note, remove_todoist_completed
\* of the section's last entry included.
C16_HeadersPersist ==
    [][last'.op # "none" =>
          /\ \A h \in DailyTrackedHeaders : HasLine(da, h) => HasLine(da', h)
          /\ \A h \in WeeklyTrackedHeaders : HasLine(wc', h)]_vars

\* C17: every log-entry recogniser (of the daily and weekly update writers,
\* of the Todoist and weekly completed-task writers, of the dedup helper)
\* classifies a line that begins with '[HH:MM AM]' or '[HH:MM PM]' as a log
\* entry, as it does a line that begins with '[HH:MM]'.
C17_MeridiemRecognised ==
    (seen.pattern # "none" /\ line \in StampedLines) => seen.match

-----------------------------------------------------------------------------
(* Claims about overlapping invocations *)

\* The full text the writer of invocation i yields on the text i has read
TextFrom(i) ==
    IF i.op = "upsert_daily_action_issue_touched"
    THEN DailyIssueUpsert(i.buf, i.key, i.body, i.flag).text
    ELSE DailyManusUpsert(i.buf, i.key).text

\* The entry line invocation i is to leave in the note
EntryOf(i) ==
    IF i.op = "upsert_daily_action_issue_touched"
    THEN FormatIssueEntry(i.key, i.body) ELSE ManusLine(i.key)

\* C18: with overlapping read-modify-write cycles on the Daily Action note
\* the stored text is, after every upload, exactly the full text that the
\* invocation that uploaded last computed from the text it had read; the
\* entry of an earlier uploader is in the note only if the last uploader had
\* read it (or writes the same line itself).
C18_LastWriterWins ==
    writeLog # <<>> =>
        LET q == inv[writeLog[Len(writeLog)]]
        IN  /\ da = TextFrom(q)
            /\ \A k \in 1 .. (Len(writeLog) - 1) :
                  LET e == EntryOf(inv[writeLog[k]])
                  IN  HasLine(da, e) => (HasLine(q.buf, e) \/ e = EntryOf(q))

\* A lost update: both invocations have uploaded, the second had read the note
\* before the first uploaded, and the first one's entry is gone
C18_Witness ==
    /\ writeLog = <<1, 2>>
    /\ inv[1].pc = "done" /\ inv[2].pc = "done"
    /\ inv[1].op = "upsert_daily_action_issue_touched"
    /\ inv[2].op = "_upsert_daily_action_manus_touched"
    /\ ~HasLine(inv[2].buf, EntryOf(inv[1]))
    /\ ~HasLine(da, EntryOf(inv[1]))
    /\ HasLine(da, EntryOf(inv[2]))

-----------------------------------------------------------------------------
(* Claims about Manus tasks and update bodies *)

\* The indices among S of the lines that hold url u
UrlLines(F, S, u) == {i \in S : At(F, i).k \in {"upd", "manus", "gh"} /\ At(F, i).a = u}

\* C19: after every upsert_manus_task_touched call that succeeds on a note,
\* the Daily Action note holds exactly one line with the task_url and so does
\* the resolved weekday subsection of the Weekly Cycle note; a call that
\* finds the url there already returns 'skipped' for that note and does not
\* write it.
C19_ManusIdempotent ==
    [][/\ (/\ last'.op = "upsert_manus_task_touched"
           /\ pending'.op = "upsert_manus_task_touched"
           /\ last'.da.ok) =>
              /\ Cardinality(UrlLines(da', Idx(da'), last'.key)) = 1
              /\ UrlLines(da, Idx(da), last'.key) # {} =>
                    (last'.da.action = "skipped" /\ last'.da.writes = 0 /\ da' = da)
       /\ (/\ pending.op = "upsert_manus_task_touched"
           /\ pending' = NoPending
           /\ last'.wc.ok) =>
              LET day == DayRange(wc, EffectiveDayName(now))
                  day2 == DayRange(wc', EffectiveDayName(now))
              IN  /\ Cardinality(UrlLines(wc', day2, last'.key)) = 1
                  /\ UrlLines(wc, day, last'.key) # {} =>
                        (last'.wc.action = "skipped" /\ last'.wc.writes = 0 /\ wc' = wc)]_vars

\* The second call with M1, at 01:30 of the next calendar day (the same
\* effective day), has skipped both notes
C19_Witness ==
    /\ last.op = "upsert_manus_task_touched"
    /\ pending = NoPending
    /\ last.key = "M1"
    /\ now = 2
    /\ last.da.action = "skipped"
    /\ last.wc.action = "skipped"
    /\ Cardinality(UrlLines(da, Idx(da), "M1")) = 1
    /\ Cardinality(UrlLines(wc, DayRange(wc, "Wednesday"), "M1")) = 1

\* Dash lines that are indented
IndentedDash == {"dash4", "dash8", "dash10"}

\* Among the indices S the header line of the entry of url u is followed by
\* as many indented dash lines as the body "bul" has bullets
RenderedIndented(lines, S, u) ==
    \E i \in EntryHeads(lines, S, u) :
        /\ At(lines, i).c = ""
        /\ i + Len(BodyText("bul")) < Len(lines)
        /\ \A n \in 1 .. Len(BodyText("bul")) :
              At(lines, i + n).k = "body" /\ At(lines, i + n).c \in IndentedDash

\* Among the indices S the url u has one entry, rendered from the body "bul"
\* and followed by no further body line, and no body line lies outside an entry
HasBulletEntry(lines, S, u) ==
    /\ EntryHeads(lines, S, u) # {}
    /\ \A i \in EntryHeads(lines, S, u) :
          /\ i + Len(FormatUpdateEntry("", u, "bul")) <= Len(lines)
          /\ Slice(lines, i + 1, i + Len(FormatUpdateEntry("", u, "bul"))) = ContentLines("bul")
          /\ (i + Len(FormatUpdateEntry("", u, "bul")) < Len(lines) =>
                 At(lines, i + Len(FormatUpdateEntry("", u, "bul"))).k # "body")
    /\ StrayBodyLines(lines, S) = {}

\* A later upsert with the same url takes the header line and its rendered
\* bullet lines as one entry and replaces all of them
BulletsRoundTrip ==
    [][/\ (/\ last'.op = "upsert_daily_action_update" /\ last'.da.ok /\ last'.key # ""
           /\ HasBulletEntry(da, Idx(da), last'.key)) =>
              (last'.da.action = "updated" /\ OneEntry(da', Idx(da'), last'.key, last'.body))
       /\ (/\ last'.op = "upsert_weekly_cycle_update" /\ last'.wc.ok /\ last'.key # ""
           /\ HasBulletEntry(wc, DayRange(wc, EffectiveDayName(now)), last'.key)) =>
              (/\ last'.wc.action = "updated"
               /\ OneEntry(wc', DayRange(wc', EffectiveDayName(now)), last'.key, last'.body))]_vars

\* C20: an update body of first-level ('* ') and second-level ('+ ') bullets
\* is rendered as a header line followed by indented dash lines, and a later
\* upsert with the same url takes that header line and all of its rendered
\* body lines as one contiguous entry and replaces all of them.
C20_BulletsRendered ==
    [][/\ (/\ last'.op = "upsert_daily_action_update" /\ last'.da.ok /\ last'.key # ""
           /\ last'.body = "bul") => RenderedIndented(da', Idx(da'), last'.key)
       /\ (/\ last'.op = "upsert_weekly_cycle_update" /\ last'.wc.ok /\ last'.key # ""
           /\ last'.body = "bul") =>
              RenderedIndented(wc', DayRange(wc', EffectiveDayName(now)), last'.key)
       /\ (/\ last'.op = "upsert_daily_action_update" /\ last'.da.ok /\ last'.key # ""
           /\ HasBulletEntry(da, Idx(da), last'.key)) =>
              (last'.da.action = "updated" /\ OneEntry(da', Idx(da'), last'.key, last'.body))
       /\ (/\ last'.op = "upsert_weekly_cycle_update" /\ last'.wc.ok /\ last'.key # ""
           /\ HasBulletEntry(wc, DayRange(wc, EffectiveDayName(now)), last'.key)) =>
              (/\ last'.wc.action = "updated"
               /\ OneEntry(wc', DayRange(wc', EffectiveDayName(now)), last'.key, last'.body))]_vars

-----------------------------------------------------------------------------
(* Claims about placement and layout *)

\* A Daily Action note that holds only front matter, the Daily Review block
\* and the template from its boundary line on
OnlyFrame(F) ==
    /\ \A i \in Idx(F) : At(F, i).k \in {"sep", "text", "blank", "dr", "tb"}
    /\ HasLine(F, DailyReviewLine)
    /\ HasLine(F, TEMPLATE_BOUNDARY)

\* C21: on a Daily Action note that holds only front matter, the Daily Review
\* block and the template boundary, the first append_todoist_completed adds
\* exactly three lines (the header, the entry, a blank line) immediately
\* before the template-boundary line and changes nothing else.
C21_FirstAppendThreeLines ==
    [][(last'.op = "append_todoist_completed" /\ last'.da.ok /\ OnlyFrame(da)) =>
          \E t \in Idx(da) :
              /\ At(da, t) = TEMPLATE_BOUNDARY
              /\ da' = InsertAt(da, t, <<TODOIST_COMPLETED_HEADER,
                                         TaskLine(Stamp(now), last'.key), Blank>>)]_vars

\* The lines that belong to entries of the tracked sections
EntryKinds == {"task", "upd", "body", "issue", "manus", "gh"}

\* A blank line of F whose nearest non-blank neighbours on both sides are
\* entries of completed tasks
BlankBetweenTasks(F) ==
    {j \in Idx(F) :
        /\ IsBlank(At(F, j))
        /\ LET up == {i \in 0 .. (j - 1) : ~IsBlank(At(F, i))}
               down == {i \in (j + 1) .. (Len(F) - 1) : ~IsBlank(At(F, i))}
           IN  /\ up # {} /\ down # {}
               /\ At(F, SetMax(up)).k = "task"
               /\ At(F, SetMin(down)).k = "task"}

\* A tracked section header right below a line of an entry
HeaderRightBelowEntry(F) ==
    {h \in Idx(F) : h > 0 /\ At(F, h).k = "hdr" /\ At(F, h - 1).k \in EntryKinds}

\* C22: after any sequence of writes to notes that start without entries, no
\* blank line lies between consecutive entries of a Completed Tasks section,
\* and the last entry of a tracked section is separated from a following
\* section header by at least one blank line.
C22_SectionSpacing ==
    /\ BlankBetweenTasks(da) = {} /\ HeaderRightBelowEntry(da) = {}
    /\ BlankBetweenTasks(wc) = {} /\ HeaderRightBelowEntry(wc) = {}

\* The part of a Daily Action note below its front matter
Main(F) == ParseYamlFrontmatter(F).main

\* post is pre with one block of lines, header h among them, inserted at a
InsertedAt(pre, post, a, h) ==
    LET k == Len(post) - Len(pre)
    IN  /\ k > 0
        /\ a \in 0 .. Len(pre)
        /\ Slice(post, 0, a) = Slice(pre, 0, a)
        /\ Slice(post, a + k, Len(post)) = Slice(pre, a, Len(pre))
        /\ \E i \in a .. (a + k - 1) : At(post, i) = h

\* The block was put at the anchor line: nothing but blank lines lies
\* between the block and the anchor.
InsertedAtAnchor(pre, post, anchor, h) ==
    \E a \in 0 .. anchor :
        /\ InsertedAt(pre, post, a, h)
        /\ \A i \in a .. (anchor - 1) : IsBlank(At(pre, i))

\* Tail anchor of a Daily Action note: the template-boundary line below
\* Daily Review, the start of the managed range without one.
DailyTailAnchor(lines) ==
    LET dre == DailyReviewEndOrZero(lines)
        tbs == {i \in dre .. (Len(lines) - 1) : At(lines, i) = TEMPLATE_BOUNDARY}
    IN  IF tbs = {} THEN dre ELSE SetMin(tbs)

\* Tail anchor of a weekday subsection: its closing '---' line, the line
\* below the day header without one.
WeeklyTailAnchor(lines, day) ==
    LET ds == FindDaySection(lines, day)
    IN  IF ds.end < Len(lines) THEN ds.end ELSE ds.start + 1

\* Every section header in [from, to) sorts before h in order
NoLaterSection(lines, from, to, order, h) ==
    \A i \in from .. (to - 1) :
        At(lines, i).k = "hdr" =>
            OrderIndex(order, At(lines, i)) \in 1 .. (OrderIndex(order, h) - 1)

OrderedDailyWriters ==
    {"upsert_daily_action_update", "_upsert_daily_action_manus_touched"}

OrderedWeeklyWriters ==
    {"upsert_weekly_cycle_update", "_upsert_weekly_cycle_manus_touched",
     "upsert_weekly_cycle_issue_touched"}

\* C23: when a writer creates a tracked section and no section that follows
\* it in canonical order is present, the new section is put at the tail
\* anchor of the range: the template-boundary line of a Daily Action note,
\* the closing '---' of the weekday subsection of a Weekly Cycle note.
C23_NewSectionAtTailAnchor ==
    [][/\ \A k \in 1 .. Len(ManusDailySectionOrder) :
            LET h == ManusDailySectionOrder[k]
                lines == Main(da)
            IN  (/\ last'.op \in OrderedDailyWriters
                 /\ last'.da.ok
                 /\ ~HasLine(da, h)
                 /\ HasLine(da', h)
                 /\ NoLaterSection(lines, DailyReviewEndOrZero(lines), Len(lines),
                                   ManusDailySectionOrder, h))
                => InsertedAtAnchor(lines, Main(da'), DailyTailAnchor(lines), h)
       /\ \A k \in 1 .. Len(WeeklySectionOrder) :
            LET h == WeeklySectionOrder[k]
                day == EffectiveDayName(now)
                ds == FindDaySection(wc, day)
            IN  (/\ last'.op \in OrderedWeeklyWriters
                 /\ last'.wc.ok
                 /\ HeaderPosition(wc, ds.start, ds.end, h) = None
                 /\ HasLine(Slice(wc', ds.start, FindDaySection(wc', day).end), h)
                 /\ NoLaterSection(wc, ds.start, ds.end, WeeklySectionOrder, h))
                => InsertedAtAnchor(wc, wc', WeeklyTailAnchor(wc, day), h)]_vars

-----------------------------------------------------------------------------
(* Claims about the order of Log Entries *)

\* The lines of F at the indices of S, in the order of the note
LinesAt(F, S) ==
    [j \in 1 .. Cardinality(S) |->
        At(F, CHOOSE i \in S : Cardinality({x \in S : x <= i}) = j)]

\* The entries of the Log Entry section under header within [from, to)
LogEntries(F, from, to, header) ==
    LinesAt(F, {i \in SectionBody(F, from, to, header) : At(F, i).k \in {"task", "gh"}})

DayStart(F, day) == FindDaySection(F, day).start
DayEnd(F, day) == FindDaySection(F, day).end

\* C24: entries of a Log Entry section (Completed Tasks on Todoist, weekly
\* Completed Tasks, GitHub Activity) stay in the order of their appends: a
\* successful append puts the new entry after every entry already in the
\* section and leaves the order of the existing entries as it was.
C24_AppendsKeepOrder ==
    [][/\ (last'.op = "append_todoist_completed" /\ last'.da.action = "inserted")
            => LogEntries(da', 0, Len(da'), TODOIST_COMPLETED_HEADER) =
                   Append(LogEntries(da, 0, Len(da), TODOIST_COMPLETED_HEADER),
                          TaskLine(Stamp(now), last'.key))
       /\ (last'.op = "append_github_activity" /\ last'.da.action = "inserted")
            => LogEntries(da', 0, Len(da'), GITHUB_ACTIVITY_HEADER) =
                   Append(LogEntries(da, 0, Len(da), GITHUB_ACTIVITY_HEADER),
                          GithubLine(Stamp(now), last'.key))
       /\ (last'.op = "append_weekly_cycle_completed" /\ last'.wc.action = "inserted")
            => LET day == RawDayName(now)
               IN  LogEntries(wc', DayStart(wc', day), DayEnd(wc', day),
                              WC_COMPLETED_TASKS_HEADER) =
                       Append(LogEntries(wc, DayStart(wc, day), DayEnd(wc, day),
                                         WC_COMPLETED_TASKS_HEADER),
                              TaskLine(Stamp(now), last'.key))]_vars

-----------------------------------------------------------------------------
(* Claims about _find_issues_touched_insert_position *)

\* Index of header h in the managed range [dre, template boundary), or None
HeaderInRange(lines, dre, h) ==
    LET tbs == {i \in dre .. (Len(lines) - 1) : At(lines, i) = TEMPLATE_BOUNDARY}
        to == IF tbs = {} THEN Len(lines) ELSE SetMin(tbs)
    IN  First({i \in dre .. (to - 1) : At(lines, i) = h})

\* The line index just after the section whose header is at hp: the next
\* header, '---' or template-boundary line, the end of the text without one.
JustAfterSection(lines, hp) ==
    LET e == First({i \in (hp + 1) .. (Len(lines) - 1) :
                       StartsHash(At(lines, i)) \/ IsSep(At(lines, i))
                       \/ At(lines, i) = TEMPLATE_BOUNDARY})
    IN  IF e = None THEN Len(lines) ELSE e

\* The position the function is said to return
SaidPosition(lines, dre) ==
    LET t == HeaderInRange(lines, dre, TODOIST_COMPLETED_HEADER)
        p == HeaderInRange(lines, dre, PROJECT_UPDATES_HEADER)
        i == HeaderInRange(lines, dre, INITIATIVE_UPDATES_HEADER)
        tb == First({x \in dre .. (Len(lines) - 1) : At(lines, x) = TEMPLATE_BOUNDARY})
    IN  IF t # None THEN JustAfterSection(lines, t)
        ELSE IF p # None THEN JustAfterSection(lines, p)
        ELSE IF i # None THEN JustAfterSection(lines, i)
        ELSE IF tb # None THEN tb
        ELSE dre

\* C25: _find_issues_touched_insert_position returns the index just after
\* the Completed Tasks on Todoist section when there is one, otherwise just
\* after Project Updates, otherwise just after Initiative Updates, otherwise
\* the template-boundary line, otherwise the Daily Review end; the index is
\* at or after the Daily Review end and at or before the template boundary.
C25_IssuesInsertPosition ==
    insertPos.called =>
        /\ insertPos.pos = SaidPosition(mainLines, insertPos.dre)
        /\ insertPos.pos >= insertPos.dre
        /\ \A x \in insertPos.dre .. (Len(mainLines) - 1) :
               At(mainLines, x) = TEMPLATE_BOUNDARY => insertPos.pos <= x

-----------------------------------------------------------------------------
(* Claims about the day the writers resolve *)

\* effective_date(t) as a weekday name: the previous calendar day when the
\* local hour is before 3
SaidEffectiveDayName(n) ==
    IF Instants[n].hour < 3
    THEN DayNames[((Instants[n].dow + 6) % 7) + 1]
    ELSE DayNames[Instants[n].dow + 1]

\* The lines of the subsection of weekday d, header included
DaySectionText(F, d) ==
    IF DayStart(F, d) = None THEN <<>> ELSE Slice(F, DayStart(F, d), DayEnd(F, d))

\* C26: at any instant every writer resolves the effective day: the Daily
\* Action file and the weekday subsection it works on are those of
\* effective_date(now), the previous calendar day before 03:00, and a write
\* to the Weekly Cycle note changes no other weekday's subsection.
C26_SameEffectiveDay ==
    [][last'.op # "none" =>
          /\ WriterDayName(last'.op, now) = SaidEffectiveDayName(now)
          /\ \A d \in 1 .. Len(DayNames) :
                 DayNames[d] # SaidEffectiveDayName(now)
                     => DaySectionText(wc', DayNames[d]) = DaySectionText(wc, DayNames[d])]_vars

-----------------------------------------------------------------------------
(* Claims about the sections of a note *)

\* Number of lines of F in [from, to) that are the header h
Occurrences(F, from, to, h) == Cardinality({i \in from .. (to - 1) : At(F, i) = h})

\* The tracked headers of a Weekly Cycle note (heading level 5)
WeeklyHeaders ==
    {WC_INITIATIVE_UPDATES_HEADER, WC_PROJECT_UPDATES_HEADER, WC_COMPLETED_TASKS_HEADER,
     WC_ISSUES_TOUCHED_HEADER, WEEKLY_CYCLE_HEADER}

\* C27: each tracked header occurs at most once in the Daily Action note and
\* at most once in each weekday subsection of the Weekly Cycle note, after
\* any sequence of operations of the writers.
C27_HeadersOnce ==
    /\ \A h \in DailyTrackedHeaders : Occurrences(da, 0, Len(da), h) <= 1
    /\ \A d \in 1 .. Len(DayNames) : \A h \in WeeklyHeaders :
           DayStart(wc, DayNames[d]) # None
               => Occurrences(wc, DayStart(wc, DayNames[d]), DayEnd(wc, DayNames[d]), h) <= 1

\* Line e stands in the section under header within [from, to) of F
InSection(F, from, to, header, e) ==
    \E i \in SectionBody(F, from, to, header) : At(F, i) = e

InDaily(F, header, e) == InSection(F, 0, Len(F), header, e)

InWeekday(F, day, header, e) ==
    /\ DayStart(F, day) # None
    /\ InSection(F, DayStart(F, day), DayEnd(F, day), header, e)

\* The first line of the rendered entry of an update
UpdateHead(ts, url, b) == FormatUpdateEntry(ts, url, b)[1]

\* C28: whenever an insert-type call reports success (action 'inserted' of
\* an upsert, a normal return without a dedup skip of append_todoist_completed
\* or append_github_activity), the text written to the store holds the newly
\* rendered entry inside the target section, whatever the document was.
C28_InsertedEntryStored ==
    [][/\ (last'.op = "upsert_daily_action_issue_touched" /\ last'.da.action = "inserted")
            => InDaily(da', ISSUES_TOUCHED_HEADER, FormatIssueEntry(last'.key, last'.body))
       /\ (last'.op = "append_todoist_completed" /\ last'.da.action = "inserted")
            => InDaily(da', TODOIST_COMPLETED_HEADER, TaskLine(Stamp(now), last'.key))
       /\ (last'.op = "append_github_activity" /\ last'.da.action = "inserted")
            => InDaily(da', GITHUB_ACTIVITY_HEADER, GithubLine(Stamp(now), last'.key))
       /\ (last'.op = "_upsert_daily_action_manus_touched" /\ last'.da.action = "inserted")
            => InDaily(da', DAILY_ACTION_HEADER, ManusLine(last'.key))
       /\ (last'.op = "upsert_daily_action_update" /\ last'.da.action = "inserted")
            => \E sectionType \in SectionTypes :
                   /\ da' = Stored(da, DailyUpdateResult(sectionType, last'.key, last'.body))
                   /\ InDaily(da', GetSectionHeader("3", sectionType),
                              UpdateHead(Stamp(now), last'.key, last'.body))
       /\ (last'.op = "upsert_weekly_cycle_issue_touched" /\ last'.wc.action = "inserted")
            => InWeekday(wc', EffectiveDayName(now), WC_ISSUES_TOUCHED_HEADER,
                         FormatIssueEntry(last'.key, last'.body))
       /\ (last'.op = "_upsert_weekly_cycle_manus_touched" /\ last'.wc.action = "inserted")
            => InWeekday(wc', EffectiveDayName(now), WEEKLY_CYCLE_HEADER,
                         ManusLine(last'.key))
       /\ (last'.op = "upsert_weekly_cycle_update" /\ last'.wc.action = "inserted")
            => \E sectionType \in SectionTypes :
                   /\ wc' = Stored(wc, WeeklyUpdateResult(sectionType, last'.key, last'.body))
                   /\ InWeekday(wc', EffectiveDayName(now), GetSectionHeader("5", sectionType),
                                UpdateHead(Stamp(now), last'.key, last'.body))]_vars

-----------------------------------------------------------------------------
(* Claims about the URL key *)

\* l is an entry whose own URL is u
OwnUrl(l, u) == l.k \in {"upd", "manus"} /\ l.a = u

\* post is pre with lines added in one place and no line of pre changed
KeepsLines(pre, post) ==
    /\ Len(post) >= Len(pre)
    /\ \E a \in 0 .. Len(pre) :
           /\ Slice(post, 0, a) = Slice(pre, 0, a)
           /\ Slice(post, a + Len(post) - Len(pre), Len(post)) = Slice(pre, a, Len(pre))

UrlKeyedDaily == {"upsert_daily_action_update", "_upsert_daily_action_manus_touched"}
UrlKeyedWeekly == {"upsert_weekly_cycle_update", "_upsert_weekly_cycle_manus_touched"}

\* C29: a URL-keyed call (the update and Manus upserts) with url u treats a
\* line as the existing entry only when that entry's own URL is u; with any
\* other u, the empty string included, it takes the insert path and leaves
\* every existing line as it was.
C29_UrlIdentity ==
    [][/\ (/\ last'.op \in UrlKeyedDaily
           /\ last'.da.ok
           /\ \A i \in Idx(da) : ~OwnUrl(At(da, i), last'.key))
          => /\ last'.da.action = "inserted"
             /\ KeepsLines(Main(da), Main(da'))
       /\ (/\ last'.op \in UrlKeyedWeekly
           /\ last'.wc.ok
           /\ \A i \in Idx(wc) : ~OwnUrl(At(wc, i), last'.key))
          => /\ last'.wc.action = "inserted"
             /\ KeepsLines(wc, wc')]_vars

\* The call that follows repeats the arguments of the call just made
Redelivered(op) ==
    /\ last.op = op
    /\ last'.op = op
    /\ last'.key = last.key
    /\ last'.body = last.body

\* C30: delivering the same update again (same section_type, url,
\* parent_name and content, in the same clock minute) leaves the document
\* byte for byte as it was after the first call.
C30_RedeliveryIdempotent ==
    [][/\ (/\ Redelivered("upsert_daily_action_update")
           /\ last.da.ok
           /\ \E sectionType \in SectionTypes :
                  last'.da = Out(DailyUpdateResult(sectionType, last.key, last.body), FALSE))
          => da' = da
       /\ (/\ Redelivered("upsert_weekly_cycle_update")
           /\ last.wc.ok
           /\ \E sectionType \in SectionTypes :
                  last'.wc = Out(WeeklyUpdateResult(sectionType, last.key, last.body), FALSE))
          => wc' = wc]_vars

-----------------------------------------------------------------------------
(* C31: an upsert for one key leaves the entries of the other keys alone *)

\* The kinds of line that make up the entries the claim names: issue lines,
\* update blocks (header line and body lines), Manus lines, completed tasks
KeyedKinds == {"issue", "upd", "body", "manus", "task"}

\* The key of the entry the line at index i belongs to: its own for a header
\* line, for a body line that of the update header its block hangs under
EntryOwner(F, i) ==
    LET l == At(F, i)
        above == {q \in 0 .. (i - 1) : At(F, q).k # "body"}
    IN  IF l.k # "body" THEN l.a
        ELSE IF above # {} /\ At(F, SetMax(above)).k = "upd"
        THEN At(F, SetMax(above)).a
        ELSE ""

\* The lines of the entries of keys other than key, in the order of the note;
\* a body line that hangs under no update header belongs to no entry
OtherEntries(F, key) ==
    LinesAt(F, {i \in Idx(F) :
                   /\ At(F, i).k \in KeyedKinds
                   /\ i \notin StrayBodyLines(F, Idx(F))
                   /\ EntryOwner(F, i) # key})

UpsertWriters ==
    {"upsert_daily_action_issue_touched", "upsert_weekly_cycle_issue_touched",
     "upsert_daily_action_update", "upsert_weekly_cycle_update",
     "_upsert_daily_action_manus_touched", "_upsert_weekly_cycle_manus_touched"}

\* C31: an upsert with a non-empty key (the keys of the model contain one
\* another only when equal) leaves every entry of a different key that was in
\* the note before the call in the note after it, with the same text and in
\* the same relative order, in the Daily Action note and in the Weekly Cycle
\* note.
C31_OtherKeysUntouched ==
    [][(last'.op \in UpsertWriters /\ last'.key # "")
       => /\ OtherEntries(da', last'.key) = OtherEntries(da, last'.key)
          /\ OtherEntries(wc', last'.key) = OtherEntries(wc, last'.key)]_vars

-----------------------------------------------------------------------------
(* C32: splitting off the front matter and joining it back *)

\* yaml_section + main_content, as lines
Rejoined(F) == ParseYamlFrontmatter(F).yaml \o ParseYamlFrontmatter(F).main

\* The front matter of F with the blank lines that follow it (the leading
\* blank lines alone when F has no front matter)
FrontHead(F) ==
    LET ends == {i \in 1 .. (Len(F) - 1) : IsSep(At(F, i))}
        e == IF Len(F) >= 2 /\ F[1] = Sep /\ ends # {} THEN SetMin(ends) + 1 ELSE 0
        below == {i \in e .. (Len(F) - 1) : At(F, i) # Blank}
    IN  Slice(F, 0, IF below = {} THEN Len(F) ELSE SetMin(below))

\* C32: a call that writes the Daily Action note read a text that
\* _parse_yaml_frontmatter splits into two parts whose concatenation is that
\* text again, and the note it stores has the same front matter and the same
\* blank lines below it as the text it read.
C32_FrontMatterRoundTrip ==
    [][(last'.da.called /\ last'.da.writes = 1)
       => /\ Rejoined(da) = da
          /\ FrontHead(da') = FrontHead(da)]_vars

-----------------------------------------------------------------------------
(* C33: a task completed and then uncompleted at the same clock time *)

\* F holds a completed-task entry with the text as it was passed
HasTaskEntry(F, text) == \E i \in Idx(F) : At(F, i).k = "task" /\ At(F, i).a = text

\* C33: when append_todoist_completed has put the entry of a task into the
\* Daily Action note and remove_todoist_completed is called next with the
\* same task_content, with the clock where it was, the note holds no
\* completed-task entry of that task afterwards, at every hour of the day.
C33_CompleteThenUncomplete ==
    [][(/\ last.op = "append_todoist_completed"
        /\ last.da.ok
        /\ HasTaskEntry(da, last.key)
        /\ last'.op = "remove_todoist_completed"
        /\ last'.key = last.key)
       => ~HasTaskEntry(da', last.key)]_vars

-----------------------------------------------------------------------------
(* C34: remove_todoist_completed removes the entries of its task only *)

\* Index of the first Completed Tasks on Todoist header of F, or None
TodoistStart(F) == First({i \in Idx(F) : At(F, i) = TODOIST_COMPLETED_HEADER})

\* Index of the first line below that header that is neither blank, nor a log
\* entry, nor the header again: the section with the blank lines around its
\* entries ends there
TodoistEnd(F) ==
    LET b == First({i \in Idx(F) :
                      /\ i > TodoistStart(F)
                      /\ At(F, i) # TODOIST_COMPLETED_HEADER
                      /\ ~MatchesLogEntry(At(F, i))
                      /\ ~IsBlank(At(F, i))})
    IN  IF b = None THEN Len(F) ELSE b

\* The completed-task entries of F whose text, stripped, is not that of text
OtherTasks(F, text) ==
    LinesAt(F, {i \in Idx(F) : At(F, i).k = "task" /\ Strip(At(F, i).a) # Strip(text)})

\* C34: a remove_todoist_completed(task_content) call that writes the note
\* leaves every completed-task entry of another text in the note, in place
\* and in order, and leaves every line above the Completed Tasks on Todoist
\* header and every line from the end of that section on as it was.
C34_RemovesOnlyItsTask ==
    [][(last'.op = "remove_todoist_completed" /\ last'.da.writes = 1)
       => /\ OtherTasks(da', last'.key) = OtherTasks(da, last'.key)
          /\ Slice(da', 0, TodoistStart(da)) = Slice(da, 0, TodoistStart(da))
          /\ Len(da') >= Len(da) - TodoistEnd(da)
          /\ Slice(da', Len(da') - (Len(da) - TodoistEnd(da)), Len(da'))
                 = Slice(da, TodoistEnd(da), Len(da))]_vars

-----------------------------------------------------------------------------
(* C35: overlapping upserts for one key *)

\* The entry lines of F that carry key
KeyLines(F, key) ==
    {i \in Idx(F) : At(F, i).k \in {"issue", "manus"} /\ At(F, i).a = key}

-----------------------------------------------------------------------------
(* C36: the managed range of a Daily Action note *)

ManagedRangeWriters ==
    {"append_todoist_completed", "upsert_daily_action_issue_touched",
     "_upsert_daily_action_manus_touched"}

TrackedDailyHeaders ==
    {INITIATIVE_UPDATES_HEADER, PROJECT_UPDATES_HEADER, TODOIST_COMPLETED_HEADER,
     ISSUES_TOUCHED_HEADER, DAILY_ACTION_HEADER, GITHUB_ACTIVITY_HEADER}

\* The template-boundary line stands below Daily Review and every tracked
\* header of the note stands between the two
HeadersInManagedRange(lines) ==
    LET dre == DailyReviewEndOrZero(lines) IN
    /\ \E i \in Idx(lines) : At(lines, i) = TEMPLATE_BOUNDARY
    /\ \A i \in Idx(lines) : At(lines, i) = TEMPLATE_BOUNDARY => i >= dre
    /\ \A i \in Idx(lines) :
          At(lines, i) \in TrackedDailyHeaders => (i >= dre /\ i < DailyTailAnchor(lines))

\* post is pre with lines inserted at one index a, lo <= a <= hi, and
\* nothing else changed
InsertedWithin(pre, post, lo, hi) ==
    \E a \in lo .. hi :
        /\ Slice(post, 0, a) = Slice(pre, 0, a)
        /\ Slice(post, a + Len(post) - Len(pre), Len(post)) = Slice(pre, a, Len(pre))

-----------------------------------------------------------------------------
(* C37: update and Manus sections of a weekday subsection *)

\* Calls in a row in the specification of the weekly update and Manus writers
MaxWeeklyCalls == 4

WeeklyCall(op, key, body, r) ==
    /\ ops < MaxWeeklyCalls
    /\ ops' = ops + 1
    /\ wc' = Stored(wc, r)
    /\ last' = Last(op, key, FALSE, body, NoCall, Out(r, FALSE))
    /\ UNCHANGED <<da, daPresent, wcPresent, now, pending, dateVars, logVars, raceVars, posVars>>

weekly_cycle_update ==
    \E sectionType \in SectionTypes, url \in Urls, b \in Bodies :
        WeeklyCall("upsert_weekly_cycle_update", url, b,
                   WeeklyUpdateResult(sectionType, url, b))

weekly_cycle_manus_touched ==
    \E url \in ManusUrls :
        WeeklyCall("_upsert_weekly_cycle_manus_touched", url, "", WeeklyManusResult(url))

InitWeekly ==
    /\ Init
    /\ da = DailyTemplate
    /\ wcPresent = TRUE

NextWeekly ==
    \/ weekly_cycle_update
    \/ weekly_cycle_manus_touched

SpecWeekly == InitWeekly /\ [][NextWeekly]_vars

UpdatesThenManus ==
    <<WC_INITIATIVE_UPDATES_HEADER, WC_PROJECT_UPDATES_HEADER, WEEKLY_CYCLE_HEADER>>

\* C37: in every weekday subsection that upsert_weekly_cycle_update and the
\* weekly Manus upsert have written to, starting from a subsection without
\* tracked sections and in whatever order the calls came, an Initiative
\* Updates header stands above a Project Updates header and both stand above
\* a Manus Tasks header.
C37_UpdatesThenManus ==
    \A k \in 1 .. Len(DayNames) :
        HeadersInOrder(wc, DayRange(wc, DayNames[k]), UpdatesThenManus)

\* After three calls the Wednesday subsection holds the three sections, and
\* the last of them was created by an update call, above the Manus Tasks
\* section that was there before it
C37_Witness ==
    LET dr == DayRange(wc, "Wednesday")
        at(h) == {i \in dr : At(wc, i) = h}
    IN  /\ ops = 3
        /\ last.op = "upsert_weekly_cycle_update"
        /\ last.wc.action = "inserted"
        /\ at(WC_INITIATIVE_UPDATES_HEADER) # {}
        /\ at(WC_PROJECT_UPDATES_HEADER) # {}
        /\ at(WEEKLY_CYCLE_HEADER) # {}

-----------------------------------------------------------------------------
(* The issue and update writers of the Daily Action note over longer runs *)

\* Calls in a row in the specification of the daily issue and update writers
MaxDailyCalls == 4

DailyCall(op, key, flag, body, r) ==
    /\ ops < MaxDailyCalls
    /\ ops' = ops + 1
    /\ da' = Stored(da, r)
    /\ last' = Last(op, key, flag, body, Out(r, FALSE), NoCall)
    /\ UNCHANGED <<daPresent, wc, wcPresent, now, pending, dateVars, logVars, raceVars, posVars>>

daily_action_issue_touched ==
    \E id \in IssueIds, st \in Statuses, changed \in BOOLEAN :
        DailyCall("upsert_daily_action_issue_touched", id, changed, st,
                  DailyIssueResult(id, st, changed))

daily_action_update ==
    \E sectionType \in SectionTypes, url \in Urls, b \in Bodies :
        DailyCall("upsert_daily_action_update", url, FALSE, b,
                  DailyUpdateResult(sectionType, url, b))

InitDaily ==
    /\ Init
    /\ wcPresent = TRUE

NextDaily ==
    \/ daily_action_issue_touched
    \/ daily_action_update

SpecDaily == InitDaily /\ [][NextDaily]_vars

====
